---- MODULE Spec2Model ----
(***************************************************************************)
(* The chain-synchronisation state machine of the node                     *)
(* (node/src/chain/fsm.rs): SimpleFSM with its InSync and OutOfSync        *)
(* states, the blacklist, the attestation cache and the stalled-chain      *)
(* recovery, over a finite tree of blocks.                                 *)
(*                                                                         *)
(* The Acceptor, the fallback context and the StalledChainFSM are used by  *)
(* fsm.rs but their code is not part of the sources at hand; they are      *)
(* modelled from the specification (section 4.6, 6 and scenario S6).       *)
(*                                                                         *)
(* SpecAgreement puts the state machine into the honest nodes of a         *)
(* network with Byzantine nodes: the nodes vote on the candidates of one   *)
(* round and a node is handed a block once the block has a quorum.  The    *)
(* voting is not part of the sources at hand either and is modelled from   *)
(* the specification (section 3 and 4.2 to 4.4).                           *)
(*                                                                         *)
(* Time: every stored instant is kept relative to the current instant      *)
(* (the milliseconds left until an expiry, the milliseconds elapsed since  *)
(* start_time), so the clock itself is not a part of the state.            *)
(***************************************************************************)
EXTENDS Integers, Sequences, FiniteSets, TLC

\* ------------------------------------------------------------------ bounds

\* Heights of the block universe: 0 (genesis) .. MaxHeight.
MaxHeight == 4

\* fsm.rs:31 sets MAX_BLOCKS_TO_REQUEST to 50; the model scales it down so
\* that the cap min(tip + MAX_BLOCKS_TO_REQUEST, target) is effective inside
\* the block universe.
MAX_BLOCKS_TO_REQUEST == 2

\* The nodes of the network of SpecAgreement, one seat in the committees each.
NumNodes == 4

\* --------------------------------------------------------------- constants

EXPIRY_TIMEOUT_MILLIS == 5000
PRESYNC_DEFAULT_TIMEOUT == 10000
DEFAULT_ATT_CACHE_EXPIRY == 60000
INITIAL_ATTEMPTS == 3

Min(a, b) == IF a <= b THEN a ELSE b
Max(a, b) == IF a >= b THEN a ELSE b

\* ----------------------------------------------------------- block universe

\* A block is identified by its hash <<height, variant>>:
\*   "a"  iteration 1, child of the "a" block below (of genesis at height 1),
\*        at every height
\*   "b"  iteration 0, sibling of "a" (same parent): the higher-priority block
\*   "x"  iteration 0, sibling of "a", which fails verification
\*   "c"  iteration 1, child of the "b" block below: a block of another branch
\*   "d"  iteration 1, sibling of "a": a second candidate of that iteration
Genesis == <<0, "a">>

ForkBlocks ==
    {<<1, "b">>, <<1, "x">>, <<1, "d">>, <<2, "b">>, <<2, "x">>, <<2, "c">>}

Hashes == {Genesis} \cup {<<h, "a">> : h \in 1..MaxHeight} \cup ForkBlocks

Height(hash) == hash[1]

Iteration(hash) ==
    IF hash = Genesis THEN 0
    ELSE IF hash[2] \in {"a", "c", "d"} THEN 1 ELSE 0

PrevBlockHash(hash) ==
    IF hash[2] = "c" THEN <<hash[1] - 1, "b">> ELSE <<hash[1] - 1, "a">>

\* Whether the block passes the Acceptor's verification on top of its parent.
Valid(hash) == hash[2] # "x"

Peers == {"p1", "p2"}
NoPeer == "none"
\* Option<Metadata>: None for a block of the local consensus.
Sources == Peers \cup {NoPeer}

\* ------------------------------------------------------------------- state

VARIABLES
    tip,                  \* Acceptor: hash of the tip block of the ledger
    final,                \* Acceptor: height of the latest finalized block
    candidates,           \* Database: hashes of the stored candidate blocks
    curr,                 \* SimpleFSM.curr: the InSync or OutOfSync state
    blacklisted_blocks,   \* SimpleFSM.blacklisted_blocks
    attestations_cache,   \* SimpleFSM.attestations_cache: hash -> (att, expiry)
    stalled_sm,           \* SimpleFSM.stalled_sm
    votes,                \* SpecAgreement: the candidates each honest node
                          \* voted for
    nodes,                \* SpecAgreement: tip, blacklist and accepted blocks
                          \* of each honest node
    acc_lock,             \* SpecLock: the RwLock of the Acceptor, its writer
                          \* and its readers
    tasks,                \* SpecLock: where each task is in its handler
    spin,                 \* Consensus::spin: where it is, ru.round, whether
                          \* cancel_rx holds the signal, and its result
    task,                 \* the task of spawn_consensus: its status, where
                          \* it is, iter, the phase, msg and iter_ctx
    future_msgs,          \* Consensus.future_msgs: the rounds it holds
                          \* messages for
    outbound,             \* Consensus.outbound: the messages sent since the
                          \* running step began
    proposal,             \* ProposalHandler: the message at hand, the
                          \* committees of the round, what verify and
                          \* collect returned, and the candidates in db
    guards,               \* SpecOrder: the writer and the readers of each
                          \* RwLock the chain FSM uses
    runs                  \* SpecOrder: where each task is in its uses of
                          \* the locks

lockVars == <<acc_lock, tasks>>

consVars == <<spin, task, future_msgs, outbound>>

orderVars == <<guards, runs>>

\* What is checked on its own: the ProposalHandler and the order in which
\* the chain FSM takes its locks.
compVars == <<proposal, orderVars>>

vars ==
    <<tip, final, candidates, curr, blacklisted_blocks, attestations_cache,
      stalled_sm, votes, nodes, lockVars, consVars, compVars>>

\* The default attestation (Attestation::default()) and the proper ones.
DefaultAtt == 0
Atts == {1, 2}

\* The ledger is the path from the tip down to genesis.
RECURSIVE InChain(_, _)
InChain(t, hash) ==
    IF Height(hash) > Height(t) THEN FALSE
    ELSE IF hash = t THEN TRUE
    ELSE IF t = Genesis THEN FALSE
    ELSE InChain(PrevBlockHash(t), hash)

RECURSIVE fetch_block_by_height(_, _)
fetch_block_by_height(t, height) ==
    IF Height(t) = height THEN t
    ELSE fetch_block_by_height(PrevBlockHash(t), height)

EmptyMap == <<>>

MapInsert(m, k, v) == [x \in DOMAIN m \cup {k} |-> IF x = k THEN v ELSE m[x]]

MapRemove(m, k) == [x \in DOMAIN m \ {k} |-> m[x]]

\* PresyncInfo; expiry is the time left until it expires.
NoPresync ==
    [peer_addr |-> NoPeer, target_blk |-> Genesis, expiry |-> 0,
     start_height |-> 0]

PresyncInfoNew(peer_addr, target_blk, start_height) ==
    [peer_addr |-> peer_addr, target_blk |-> target_blk,
     expiry |-> PRESYNC_DEFAULT_TIMEOUT, start_height |-> start_height]

\* State::InSync(InSyncImpl) and State::OutOfSync(OutOfSyncImpl); the fields
\* of the other variant are kept at fixed values.
InSyncImplNew ==
    [state |-> "InSync", presync |-> NoPresync,
     range |-> <<0, 0>>, start_time |-> 0, pool |-> EmptyMap,
     peer_addr |-> NoPeer, attempts |-> 0]

\* start_time is the time elapsed since the instant start_time was set to; the
\* peer of a fresh OutOfSyncImpl (127.0.0.1:8000) is no peer of the model.
OutOfSyncImplNew ==
    [state |-> "OutOfSync", presync |-> NoPresync,
     range |-> <<0, 0>>, start_time |-> 0, pool |-> EmptyMap,
     peer_addr |-> NoPeer, attempts |-> INITIAL_ATTEMPTS]

\* The state a handler works on, with what the handler emits: the messages
\* sent, the blocks accepted, the restarts of consensus and the branch taken.
St ==
    [tip |-> tip, final |-> final, candidates |-> candidates, curr |-> curr,
     blacklisted_blocks |-> blacklisted_blocks,
     attestations_cache |-> attestations_cache, stalled_sm |-> stalled_sm,
     sent |-> <<>>, accepted |-> <<>>, restarts |-> 0, path |-> <<>>]

Send(s, msg) == [s EXCEPT !.sent = Append(@, msg)]

Path(s, tag) == [s EXCEPT !.path = Append(@, tag)]

\* ---------------------------------------------------------------- Acceptor

\* Whether an acceptance moves finality (decided by the execution layer): not
\* at all, or up to the accepted block.
FinModes == {"none", "self"}

NewFinal(f, blk, fin) == IF fin = "self" THEN Height(blk) ELSE f

\* Acceptor::try_accept_block succeeds for a verified successor of the tip.
CanAccept(s, blk) ==
    /\ Valid(blk)
    /\ Height(blk) = Height(s.tip) + 1
    /\ PrevBlockHash(blk) = s.tip

\* The state after a successful try_accept_block(blk, enable_consensus).
try_accept_block(s, blk, enable_consensus, fin) ==
    [s EXCEPT !.tip = blk,
              !.final = NewFinal(s.final, blk, fin),
              !.accepted = Append(@, [hash |-> blk,
                                      enable_consensus |-> enable_consensus])]

\* Acceptor::try_revert(RevertTarget::Commit(state of target)): finalized
\* blocks are never reverted, and the revert itself may fail (revert_ok).
CanRevert(s, target, revert_ok) ==
    /\ revert_ok
    /\ InChain(s.tip, target)
    /\ Height(target) >= s.final

try_revert(s, target) == [s EXCEPT !.tip = target]

restart_consensus(s) == [s EXCEPT !.restarts = @ + 1]

\* ------------------------------------------------------------------ InSync

\* What a state handler returns: the state, Ok(ret) or Err (err).
Ok(s, ret) == [s |-> s, ret |-> ret, err |-> FALSE]
Err(s) == [s |-> s, ret |-> <<>>, err |-> TRUE]
None == <<>>

\* fallback::WithContext::try_revert(local, remote, Commit(prev_state)).
FallbackCanRevert(s, local_blk, remote_blk, revert_ok) ==
    CanRevert(s, PrevBlockHash(remote_blk), revert_ok)

\* The fallback without the insertion into blacklisted_blocks.
InSyncFallbackNoBlacklist(s, remote_blk, local_blk, env) ==
    IF FallbackCanRevert(s, local_blk, remote_blk, env.revert_ok)
    THEN LET reverted == try_revert(s, PrevBlockHash(remote_blk))
         IN IF CanAccept(reverted, remote_blk)
            THEN Ok(Path(try_accept_block(reverted, remote_blk, TRUE, env.fin),
                         "fallback"), None)
            ELSE Err(Path(reverted, "fallback_not_accepted"))
    ELSE Ok(Path(s, "fallback_failed"), None)

\* on_block_event, remote_height <= tip.height and remote.iteration below the
\* iteration of the local block of that height: the fallback.
InSyncFallback(s, remote_blk, local_blk, env) ==
    IF FallbackCanRevert(s, local_blk, remote_blk, env.revert_ok)
    THEN LET reverted == try_revert(s, PrevBlockHash(remote_blk))
             listed ==
                 [reverted EXCEPT !.blacklisted_blocks = @ \cup {local_blk}]
         IN IF CanAccept(listed, remote_blk)
            THEN Ok(Path(try_accept_block(listed, remote_blk, TRUE, env.fin),
                         "fallback"), None)
            ELSE Err(Path(listed, "fallback_not_accepted"))
    ELSE Ok(Path(s, "fallback_failed"), None)

\* The handler that falls back to a remote block of the same iteration too.
InSyncNotAboveEqualFallback(s, remote_blk, src, env) ==
    LET remote_height == Height(remote_blk)
        tip_height == Height(s.tip)
        known ==
            IF remote_height = tip_height THEN remote_blk = s.tip
            ELSE InChain(s.tip, remote_blk)
        local_blk == fetch_block_by_height(s.tip, remote_height)
    IN IF known THEN Ok(Path(s, "known"), None)
       ELSE IF remote_height <= s.final THEN Ok(Path(s, "not_above_final"), None)
       ELSE IF ~InChain(s.tip, PrevBlockHash(remote_blk))
       THEN Ok(Path(s, "from_fork"), None)
       ELSE IF Iteration(remote_blk) <= Iteration(local_blk)
       THEN InSyncFallback(s, remote_blk, local_blk, env)
       ELSE IF src # NoPeer
       THEN Ok(Path(Send(s, [type |-> "Block", hash |-> local_blk,
                             to |-> src]), "higher_iteration"), None)
       ELSE Ok(Path(s, "higher_iteration"), None)

\* on_block_event, remote_height <= tip.height.
InSyncNotAbove(s, remote_blk, src, env) ==
    LET remote_height == Height(remote_blk)
        tip_height == Height(s.tip)
        known ==
            IF remote_height = tip_height THEN remote_blk = s.tip
            ELSE InChain(s.tip, remote_blk)
        local_blk == fetch_block_by_height(s.tip, remote_height)
    IN IF known THEN Ok(Path(s, "known"), None)
       ELSE IF remote_height <= s.final THEN Ok(Path(s, "not_above_final"), None)
       ELSE IF ~InChain(s.tip, PrevBlockHash(remote_blk))
       THEN Ok(Path(s, "from_fork"), None)
       ELSE IF Iteration(remote_blk) < Iteration(local_blk)
       THEN InSyncFallback(s, remote_blk, local_blk, env)
       ELSE IF Iteration(remote_blk) > Iteration(local_blk)
       THEN IF src # NoPeer
            THEN Ok(Path(Send(s, [type |-> "Block", hash |-> local_blk,
                                  to |-> src]), "higher_iteration"), None)
            ELSE Ok(Path(s, "higher_iteration"), None)
       ELSE Ok(Path(s, "double_candidate"), None)

\* The successor branch that takes the block of any peer as the one requested
\* from the presync peer.
InSyncSuccessorAnyPeer(s, remote_blk, src, env) ==
    IF ~CanAccept(s, remote_blk) THEN Err(Path(s, "not_accepted"))
    ELSE LET acc == try_accept_block(s, remote_blk, TRUE, env.fin)
             finalized == acc.final > s.final
             cleared ==
                 IF finalized THEN [acc EXCEPT !.blacklisted_blocks = {}]
                 ELSE acc
             presync == s.curr.presync
         IN IF /\ src # NoPeer
               /\ presync # NoPresync
               /\ Height(remote_blk) = presync.start_height + 1
            THEN Ok(Path([cleared EXCEPT !.curr.presync = NoPresync],
                         "presync_done"),
                    <<presync.target_blk, presync.peer_addr>>)
            ELSE Ok(Path(cleared, "accepted"), None)

\* The successor branch that clears the blacklist at every acceptance.
InSyncSuccessorClears(s, remote_blk, src, env) ==
    IF ~CanAccept(s, remote_blk) THEN Err(Path(s, "not_accepted"))
    ELSE LET acc == try_accept_block(s, remote_blk, TRUE, env.fin)
             cleared == [acc EXCEPT !.blacklisted_blocks = {}]
             presync == s.curr.presync
         IN IF /\ src # NoPeer
               /\ presync # NoPresync
               /\ src = presync.peer_addr
               /\ Height(remote_blk) = presync.start_height + 1
            THEN Ok(Path([cleared EXCEPT !.curr.presync = NoPresync],
                         "presync_done"),
                    <<presync.target_blk, presync.peer_addr>>)
            ELSE Ok(Path(cleared, "accepted"), None)

\* on_block_event, remote_height == tip.height + 1.
InSyncSuccessor(s, remote_blk, src, env) ==
    IF ~CanAccept(s, remote_blk) THEN Err(Path(s, "not_accepted"))
    ELSE LET acc == try_accept_block(s, remote_blk, TRUE, env.fin)
             finalized == acc.final > s.final
             cleared ==
                 IF finalized THEN [acc EXCEPT !.blacklisted_blocks = {}]
                 ELSE acc
             presync == s.curr.presync
         IN IF /\ src # NoPeer
               /\ presync # NoPresync
               /\ src = presync.peer_addr
               /\ Height(remote_blk) = presync.start_height + 1
            THEN Ok(Path([cleared EXCEPT !.curr.presync = NoPresync],
                         "presync_done"),
                    <<presync.target_blk, presync.peer_addr>>)
            ELSE Ok(Path(cleared, "accepted"), None)

request_block_by_height(s, height, peer_addr) ==
    Send(s, [type |-> "GetResource", height |-> height, to |-> peer_addr])

\* The presync that asks the peer for the block of the height of the tip.
InSyncAboveRequestsTip(s, remote_blk, src) ==
    IF src = NoPeer THEN Ok(Path(s, "above_local"), None)
    ELSE LET recorded ==
                 IF s.curr.presync = NoPresync
                 THEN [s EXCEPT !.curr.presync =
                           PresyncInfoNew(src, remote_blk, Height(s.tip))]
                 ELSE s
         IN Ok(Path(request_block_by_height(recorded, Height(s.tip), src),
                    "presync"), None)

\* The presync that records the sender and the block of every block event.
InSyncAboveReplaces(s, remote_blk, src) ==
    IF src = NoPeer THEN Ok(Path(s, "above_local"), None)
    ELSE LET recorded ==
                 [s EXCEPT !.curr.presync =
                     PresyncInfoNew(src, remote_blk, Height(s.tip))]
         IN Ok(Path(request_block_by_height(recorded, Height(s.tip) + 1, src),
                    "presync"), None)

\* on_block_event, remote_height > tip.height + 1.
InSyncAbove(s, remote_blk, src) ==
    IF src = NoPeer THEN Ok(Path(s, "above_local"), None)
    ELSE LET recorded ==
                 IF s.curr.presync = NoPresync
                 THEN [s EXCEPT !.curr.presync =
                           PresyncInfoNew(src, remote_blk, Height(s.tip))]
                 ELSE s
         IN Ok(Path(request_block_by_height(recorded, Height(s.tip) + 1, src),
                    "presync"), None)

\* InSyncImpl::on_block_event: ret is None or Some((target block, peer)).
InSyncOnBlockEvent(s, remote_blk, src, env) ==
    IF Height(remote_blk) <= Height(s.tip)
    THEN InSyncNotAbove(s, remote_blk, src, env)
    ELSE IF Height(remote_blk) = Height(s.tip) + 1
    THEN InSyncSuccessor(s, remote_blk, src, env)
    ELSE InSyncAbove(s, remote_blk, src)

\* on_entering that hands the block to the Acceptor whatever its height.
InSyncOnEnteringAnyHeight(s, blk, env) ==
    IF CanAccept(s, blk)
    THEN Ok(try_accept_block(s, blk, TRUE, env.fin), None)
    ELSE Err(s)

\* InSyncImpl::on_entering: Err when the block is not accepted.
InSyncOnEntering(s, blk, env) ==
    IF Height(blk) = Height(s.tip) + 1
    THEN IF CanAccept(s, blk)
         THEN Ok(try_accept_block(s, blk, TRUE, env.fin), None)
         ELSE Err(s)
    ELSE Ok(s, None)

\* InSyncImpl::on_heartbeat: never asks for a transition.
InSyncOnHeartbeat(s) ==
    IF s.curr.presync # NoPresync /\ s.curr.presync.expiry <= 0
    THEN Ok([s EXCEPT !.curr.presync = NoPresync], FALSE)
    ELSE Ok(s, FALSE)

\* --------------------------------------------------------------- OutOfSync

\* on_entering with a range that ends at the target, however far it is.
OutOfSyncOnEnteringNoCap(s, blk, peer_addr) ==
    LET next ==
            [OutOfSyncImplNew EXCEPT
                !.range = <<Height(s.tip), Height(blk)>>,
                !.pool = MapInsert(EmptyMap, Height(blk), blk),
                !.peer_addr = peer_addr]
    IN Send([s EXCEPT !.curr = next],
            [type |-> "GetBlocks", locator |-> s.tip, to |-> peer_addr])

\* OutOfSyncImpl::on_entering(blk, peer_addr), on a fresh OutOfSyncImpl.
OutOfSyncOnEntering(s, blk, peer_addr) ==
    LET curr_height == Height(s.tip)
        locator == s.tip
        next ==
            [OutOfSyncImplNew EXCEPT
                !.range = <<curr_height,
                            Min(curr_height + MAX_BLOCKS_TO_REQUEST,
                                Height(blk))>>,
                !.pool = MapInsert(EmptyMap, Height(blk), blk),
                !.peer_addr = peer_addr]
    IN Send([s EXCEPT !.curr = next],
            [type |-> "GetBlocks", locator |-> locator, to |-> peer_addr])

\* OutOfSyncImpl::on_exiting.
OutOfSyncOnExiting(s) == [s EXCEPT !.curr.pool = EmptyMap]

Expired(start_time) == start_time >= EXPIRY_TIMEOUT_MILLIS

\* The loop of on_block_event over the pooled blocks of heights
\* height .. range.1: accept each, stop at the first height not in the pool.
RECURSIVE AcceptFromPool(_, _, _)
AcceptFromPool(s, height, env) ==
    IF height > s.curr.range[2] \/ height \notin DOMAIN s.curr.pool
    THEN Ok(s, None)
    ELSE IF CanAccept(s, s.curr.pool[height])
    THEN AcceptFromPool(
             try_accept_block(s, s.curr.pool[height], FALSE, env.fin),
             height + 1, env)
    ELSE Err(Path(s, "pooled_not_accepted"))

\* The successor branch that restarts the timer whoever sent the block.
OutOfSyncSuccessorAnyPeer(s, blk, src, env) ==
    IF ~CanAccept(s, blk) THEN Err(Path(s, "not_accepted"))
    ELSE LET acc == try_accept_block(s, blk, FALSE, env.fin)
             timed == [acc EXCEPT !.curr.start_time = 0]
             drained == AcceptFromPool(timed, Height(blk) + 1, env)
         IN IF drained.err THEN drained
            ELSE IF Height(drained.s.tip) >= s.curr.range[2]
            THEN Ok(Path(restart_consensus(drained.s), "target_reached"), TRUE)
            ELSE Ok(Path(drained.s, "accepted"), FALSE)

\* The successor branch that leaves the pooled blocks where they are.
OutOfSyncSuccessorNoDrain(s, blk, src, env) ==
    IF ~CanAccept(s, blk) THEN Err(Path(s, "not_accepted"))
    ELSE LET acc == try_accept_block(s, blk, FALSE, env.fin)
             timed ==
                 IF src # NoPeer /\ src = s.curr.peer_addr
                 THEN [acc EXCEPT !.curr.start_time = 0]
                 ELSE acc
         IN IF Height(timed.tip) >= s.curr.range[2]
            THEN Ok(Path(restart_consensus(timed), "target_reached"), TRUE)
            ELSE Ok(Path(timed, "accepted"), FALSE)

\* on_block_event, h == tip.height + 1.
OutOfSyncSuccessor(s, blk, src, env) ==
    IF ~CanAccept(s, blk) THEN Err(Path(s, "not_accepted"))
    ELSE LET acc == try_accept_block(s, blk, FALSE, env.fin)
             timed ==
                 IF src # NoPeer /\ src = s.curr.peer_addr
                 THEN [acc EXCEPT !.curr.start_time = 0]
                 ELSE acc
             drained == AcceptFromPool(timed, Height(blk) + 1, env)
         IN IF drained.err THEN drained
            ELSE IF Height(drained.s.tip) >= s.curr.range[2]
            THEN Ok(Path(restart_consensus(drained.s), "target_reached"), TRUE)
            ELSE Ok(Path(drained.s, "accepted"), FALSE)

\* on_block_event that pools a block however many the pool holds.
OutOfSyncOnBlockEventNoBound(s, blk, src, env) ==
    LET h == Height(blk)
    IN IF Expired(s.curr.start_time)
       THEN Ok(Path(restart_consensus(s), "sync_timeout"), TRUE)
       ELSE IF h <= Height(s.tip) THEN Ok(Path(s, "stale"), FALSE)
       ELSE IF h = Height(s.tip) + 1 THEN OutOfSyncSuccessor(s, blk, src, env)
       ELSE Ok(Path([s EXCEPT !.curr.pool = MapInsert(@, h, blk)], "pooled"),
               FALSE)

\* on_block_event that pools a block of any height but tip.height + 1.
OutOfSyncOnBlockEventNoStale(s, blk, src, env) ==
    LET h == Height(blk)
    IN IF Expired(s.curr.start_time)
       THEN Ok(Path(restart_consensus(s), "sync_timeout"), TRUE)
       ELSE IF h = Height(s.tip) + 1 THEN OutOfSyncSuccessor(s, blk, src, env)
       ELSE IF Cardinality(DOMAIN s.curr.pool) < MAX_BLOCKS_TO_REQUEST
       THEN Ok(Path([s EXCEPT !.curr.pool = MapInsert(@, h, blk)], "pooled"),
               FALSE)
       ELSE Ok(Path(s, "pool_full"), FALSE)

\* OutOfSyncImpl::on_block_event: ret is whether to go back to InSync.
OutOfSyncOnBlockEvent(s, blk, src, env) ==
    LET h == Height(blk)
    IN IF Expired(s.curr.start_time)
       THEN Ok(Path(restart_consensus(s), "sync_timeout"), TRUE)
       ELSE IF h <= Height(s.tip) THEN Ok(Path(s, "stale"), FALSE)
       ELSE IF h = Height(s.tip) + 1 THEN OutOfSyncSuccessor(s, blk, src, env)
       ELSE IF Cardinality(DOMAIN s.curr.pool) < MAX_BLOCKS_TO_REQUEST
       THEN Ok(Path([s EXCEPT !.curr.pool = MapInsert(@, h, blk)], "pooled"),
               FALSE)
       ELSE Ok(Path(s, "pool_full"), FALSE)

\* The heights on_heartbeat asks the network for.
MissingHeights(range, pool) ==
    {height \in (range[1] + 1)..(range[2] + 1) : height \notin DOMAIN pool}

\* on_heartbeat that starts the timer again at every expiry and never gives
\* the sync up.
OutOfSyncOnHeartbeatForever(s) ==
    IF ~Expired(s.curr.start_time) THEN Ok(s, FALSE)
    ELSE LET missing == MissingHeights(s.curr.range, s.curr.pool)
             asked ==
                 IF missing # {}
                 THEN Send(s, [type |-> "FloodRequest", heights |-> missing])
                 ELSE s
         IN Ok(Path([asked EXCEPT !.curr.start_time = 0], "retry"), FALSE)

\* on_heartbeat that gives up at the first expiry.
OutOfSyncOnHeartbeatNoAttempts(s) ==
    IF ~Expired(s.curr.start_time) THEN Ok(s, FALSE)
    ELSE Ok(Path(restart_consensus(s), "attempts_depleted"), TRUE)

\* OutOfSyncImpl::on_heartbeat: ret is whether to go back to InSync.
OutOfSyncOnHeartbeat(s) ==
    IF ~Expired(s.curr.start_time) THEN Ok(s, FALSE)
    ELSE IF s.curr.attempts = 0
    THEN Ok(Path(restart_consensus(s), "attempts_depleted"), TRUE)
    ELSE LET missing == MissingHeights(s.curr.range, s.curr.pool)
             asked ==
                 IF missing # {}
                 THEN Send(s, [type |-> "FloodRequest", heights |-> missing])
                 ELSE s
         IN Ok(Path([asked EXCEPT !.curr.start_time = 0,
                                  !.curr.attempts = @ - 1], "retry"), FALSE)

\* --------------------------------------------------------- StalledChainFSM

\* Running, Stalled(height) or StalledOnFork(local_hash, remote_blk), the tip
\* the machine saw last, and whether the budget of time without a new tip is
\* used up (stale).
StalledRunning(t) ==
    [state |-> "Running", height |-> 0, local_hash |-> Genesis,
     remote_blk |-> Genesis, tip |-> t, stale |-> FALSE]

\* A new tip brings the machine back to Running.
StalledObserveTip(sm, t) == IF sm.tip # t THEN StalledRunning(t) ELSE sm

\* StalledChainFSM::on_block_received: the state after the block.
StalledOnBlockReceived(sm, t, blk) ==
    LET seen == StalledObserveTip(sm, t)
    IN IF seen.state = "Running"
       THEN IF seen.stale
            THEN [seen EXCEPT !.state = "Stalled", !.height = Height(t)]
            ELSE seen
       ELSE IF seen.state = "Stalled"
       THEN IF Height(blk) = Height(t) /\ blk # t
            THEN [seen EXCEPT !.state = "StalledOnFork", !.local_hash = t,
                              !.remote_blk = blk]
            ELSE seen
       ELSE seen

\* StalledChainFSM::on_heartbeat_event.
StalledOnHeartbeat(sm, t) ==
    LET seen == StalledObserveTip(sm, t)
    IN IF seen.state = "Running" /\ seen.stale
       THEN [seen EXCEPT !.state = "Stalled", !.height = Height(t)]
       ELSE seen

\* StalledChainFSM::reset(header).
StalledReset(sm, t) == StalledRunning(t)

\* --------------------------------------------------------------- SimpleFSM

Fresh(expiry) == expiry > 0

\* attestations_cache.retain(|_, (_, expiry)| *expiry > now)
Retain(cache) ==
    [hash \in {x \in DOMAIN cache : Fresh(cache[x].expiry)} |-> cache[hash]]

\* attach_att_if_needed that lets a block without attestation through, with
\* an attestation made up for it.
attach_att_if_neededAnyBlock(s, blk, att) ==
    LET attached ==
            IF att = DefaultAtt
            THEN IF blk \in DOMAIN s.attestations_cache
                 THEN s.attestations_cache[blk].att
                 ELSE 1
            ELSE att
    IN [s |-> [s EXCEPT !.attestations_cache = MapRemove(Retain(@), blk)],
        att |-> attached]

\* SimpleFSM::attach_att_if_needed: the attestation of the block afterwards
\* (DefaultAtt when it returns None) and the cache.
attach_att_if_needed(s, blk, att) ==
    LET attached ==
            IF att = DefaultAtt
            THEN IF blk \in DOMAIN s.attestations_cache
                 THEN s.attestations_cache[blk].att
                 ELSE DefaultAtt
            ELSE att
    IN [s |-> [s EXCEPT !.attestations_cache = MapRemove(Retain(@), blk)],
        att |-> attached]

\* SimpleFSM::flood_request_block.
flood_request_block(s, hash, att) ==
    IF hash \in DOMAIN s.attestations_cache THEN s
    ELSE Send([s EXCEPT !.attestations_cache =
                   MapInsert(@, hash, [att |-> att,
                                       expiry |-> DEFAULT_ATT_CACHE_EXPIRY])],
              [type |-> "FloodCandidate", hash |-> hash])

\* on_block_event in State::InSync: the handler, then the transition to
\* OutOfSync if it asks for one.  An error of the handler is returned at once
\* by the `?` (err), before the stalled-chain detection.
BlockEventInSync(s, blk, src, env) ==
    LET r == InSyncOnBlockEvent(s, blk, src, env)
    IN IF r.err THEN [s |-> r.s, err |-> TRUE]
       ELSE IF r.ret # None
       THEN [s |-> OutOfSyncOnEntering(r.s, r.ret[1], r.ret[2]),
             err |-> FALSE]
       ELSE [s |-> r.s, err |-> FALSE]

\* on_block_event in State::OutOfSync: the handler, then the transition to
\* InSync if it asks for one; an error of the handler or of
\* InSyncImpl::on_entering is returned at once (err), the latter after
\* on_exiting and with curr left as it is.
BlockEventOutOfSync(s, blk, src, env) ==
    LET r == OutOfSyncOnBlockEvent(s, blk, src, env)
    IN IF r.err THEN [s |-> r.s, err |-> TRUE]
       ELSE IF r.ret
       THEN LET exited == OutOfSyncOnExiting(r.s)
                entered == InSyncOnEntering(exited, blk, env)
            IN IF entered.err
               THEN [s |-> Path(exited, "entering_failed"), err |-> TRUE]
               ELSE [s |-> [entered.s EXCEPT !.curr = InSyncImplNew],
                     err |-> FALSE]
       ELSE [s |-> r.s, err |-> FALSE]

\* on_block_event, the recovery from StalledOnFork(local_hash, remote_blk).
StalledOnForkRecovery(s, env) ==
    LET local_hash_at_fork == s.stalled_sm.local_hash
        remote_blk == s.stalled_sm.remote_blk
        prev_blk == PrevBlockHash(local_hash_at_fork)
    IN IF CanRevert(s, prev_blk, env.stalled_revert_ok)
       THEN LET reverted == try_revert(s, prev_blk)
            IN IF CanAccept(reverted, remote_blk)
               THEN LET acc ==
                            try_accept_block(reverted, remote_blk, TRUE,
                                             env.fin)
                        done ==
                            [acc EXCEPT
                                !.blacklisted_blocks =
                                    @ \cup {local_hash_at_fork},
                                !.stalled_sm = StalledReset(@, remote_blk)]
                    IN [s |-> Path(done, "recovered"), res |-> "Some"]
               ELSE [s |-> Path(reverted, "recovery_not_accepted"),
                     res |-> "Err"]
       ELSE [s |-> Path(s, "revert_failed"), res |-> "None"]

\* on_block_event after the state handler: the stalled-chain detection.
StalledStep(s, blk, env) ==
    LET sm == StalledOnBlockReceived(s.stalled_sm, s.tip, blk)
        seen == [s EXCEPT !.stalled_sm = sm]
    IN IF sm.state = "StalledOnFork"
       THEN StalledOnForkRecovery(seen, env)
       ELSE IF sm.state = "Stalled"
       THEN [s |-> Path([seen EXCEPT !.blacklisted_blocks = {}], "stalled"),
             res |-> "Some"]
       ELSE [s |-> seen, res |-> "Some"]

\* SimpleFSM::on_block_event(blk, metadata): res is "Some" for Ok(Some(blk)),
\* "None" for Ok(None) and "Err" for an error.
on_block_event(s, blk, att, src, env) ==
    IF blk \in s.blacklisted_blocks
    THEN [s |-> Path(s, "blacklisted"), res |-> "None"]
    ELSE LET a == attach_att_if_needed(s, blk, att)
         IN IF a.att = DefaultAtt
            THEN [s |-> Path(a.s, "no_attestation"), res |-> "None"]
            ELSE LET f ==
                         IF a.s.curr.state = "InSync"
                         THEN BlockEventInSync(a.s, blk, src, env)
                         ELSE BlockEventOutOfSync(a.s, blk, src, env)
                 IN IF f.err THEN [s |-> f.s, res |-> "Err"]
                    ELSE StalledStep(f.s, blk, env)

\* SimpleFSM::on_quorum_msg(quorum, msg): success is whether quorum.att.result
\* is Success(Vote::Valid(hash)), round is msg.header.round.
on_quorum_msg(s, success, hash, att, round, src, env) ==
    LET pruned == [s EXCEPT !.attestations_cache = Retain(@)]
        tip_height == Height(s.tip)
    IN IF ~success THEN [s |-> Path(pruned, "no_success"), res |-> "None"]
       ELSE IF round > tip_height + 1
       THEN [s |-> Path(flood_request_block(pruned, hash, att), "future"),
             res |-> "None"]
       ELSE IF round = tip_height + 1 \/ (round = tip_height /\ s.tip # hash)
       THEN IF env.db_err
            THEN [s |-> Path(flood_request_block(pruned, hash, att),
                             "candidate_error"),
                  res |-> "Err"]
            ELSE IF hash \in s.candidates
            THEN LET r == on_block_event(pruned, hash, att, src, env)
                 IN [s |-> r.s, res |-> r.res]
            ELSE [s |-> Path(pruned, "no_candidate"), res |-> "None"]
       ELSE [s |-> Path(pruned, "old_quorum"), res |-> "None"]

\* SimpleFSM::on_heartbeat_event.
on_heartbeat_event(s) ==
    LET seen ==
            [s EXCEPT !.stalled_sm = StalledOnHeartbeat(@, s.tip)]
    IN IF seen.curr.state = "InSync"
       THEN LET r == InSyncOnHeartbeat(seen)
            IN IF r.ret THEN [r.s EXCEPT !.curr = OutOfSyncImplNew] ELSE r.s
       ELSE LET r == OutOfSyncOnHeartbeat(seen)
            IN IF r.ret
               THEN [OutOfSyncOnExiting(r.s) EXCEPT !.curr = InSyncImplNew]
               ELSE r.s

\* ------------------------------------------ the data of the consensus loop

CONSENSUS_MAX_STEP == 213

CONSENSUS_MAX_ITER == CONSENSUS_MAX_STEP \div 3

CONSENSUS_TIMEOUT_MS == 5000

CONSENSUS_MAX_TIMEOUT_MS == 60000

\* let mut iter: u8
U8 == 256

\* The rounds of the model are 0..MaxRound.
MaxRound == 2

\* The iterations a round gets to in SpecSpin and SpecTimeout.
MaxIterations == 5

\* The phases array, in the order of the for loop.
Phases == <<"Proposal", "Validation", "Ratification">>

StepNames == {Phases[i] : i \in DOMAIN Phases}

\* Message::empty()
MessageEmpty == [topic |-> "Unknown", iter |-> 0, success |-> FALSE]

\* RoundUpdate::base_timeouts, the snapshot of the round.
BaseTimeouts == [step \in StepNames |-> CONSENSUS_TIMEOUT_MS]

\* IterationCtx::new(.., base_timeouts): the timeout of each step and the
\* number of times the step timed out since.
IterationCtxNew(base_timeouts) ==
    [timeouts |-> base_timeouts, hits |-> [step \in StepNames |-> 0]]

\* IterationCtx::on_timeout_event(step).
on_timeout_event(ctx, step) ==
    [ctx EXCEPT !.timeouts[step] = Min(2 * @, CONSENSUS_MAX_TIMEOUT_MS),
                !.hits[step] = @ + 1]

\* MsgRegistry::remove_msgs_by_round on the rounds the registry holds
\* messages for.
remove_msgs_by_round(registry, round) == registry \ {round}

\* The eviction that removes the messages of the round that starts.
EvictFutureMsgsOfRound(registry, round) ==
    IF round > 0 THEN remove_msgs_by_round(registry, round) ELSE registry

\* spawn_consensus, the eviction at the start of the task.
EvictFutureMsgs(registry, round) ==
    IF round > 0 THEN remove_msgs_by_round(registry, round - 1) ELSE registry

\* The message a step returns when it is ready.
StepReady(step, iter) ==
    IF step = "Proposal"
    THEN {[topic |-> "Candidate", iter |-> iter, success |-> FALSE]}
    ELSE IF step = "Validation"
    THEN {[topic |-> "ValidationResult", iter |-> iter, success |-> b] :
              b \in BOOLEAN}
    ELSE {[topic |-> "Quorum", iter |-> iter, success |-> b] : b \in BOOLEAN}

\* The quorum of the iteration before, which any step may come across.
PastQuorum(iter) ==
    IF iter = 0 THEN {}
    ELSE {[topic |-> "Quorum", iter |-> iter - 1, success |-> b] :
              b \in BOOLEAN}

\* What Phase::run does: the message it returns, whether the deadline of the
\* step passed, whether the node cast its own vote, or a fatal error.
Outcome(msg, timeout, vote) ==
    [msg |-> msg, timeout |-> timeout, vote |-> vote, err |-> FALSE]

Fatal == [msg |-> MessageEmpty, timeout |-> FALSE, vote |-> FALSE,
          err |-> TRUE]

ReadyOutcomes(step, iter) ==
    {Outcome(msg, FALSE, vote) :
         msg \in StepReady(step, iter) \cup PastQuorum(iter),
         vote \in BOOLEAN}

TimeoutOutcome == Outcome(MessageEmpty, TRUE, FALSE)

\* The vote a step casts.
Vote(step, iter) == [topic |-> step, iter |-> iter, success |-> FALSE]

\* msg.topic() == Topics::Quorum with a quorum of success only.
NeedsForwardSuccess(msg) == msg.topic = "Quorum" /\ msg.success

\* msg.topic() == Topics::Quorum
NeedsForward(msg) == msg.topic = "Quorum"

\* The task that tokio::spawn starts, before its first statement.
TaskSpawned ==
    [status |-> "running", result |-> "none", pc |-> "evict", iter |-> 0,
     phase |-> 1, msg |-> MessageEmpty, step_msg |-> MessageEmpty,
     iter_ctx |-> IterationCtxNew(BaseTimeouts)]

NoTask == [TaskSpawned EXCEPT !.status = "none"]

\* spin before its first call; signalled is the status the task had when the
\* cancel signal was sent.
SpinIdle ==
    [pc |-> "idle", round |-> 0, cancel |-> FALSE, signalled |-> "none",
     result |-> "none"]

\* ------------------------------------------------- the ProposalHandler

\* The limits of a candidate block, of the configuration of the consensus,
\* scaled down to lists of a few digests.
MAX_BLOCK_SIZE == 2
MAX_NUMBER_OF_TRANSACTIONS == 1
MAX_NUMBER_OF_FAULTS == 1

\* The provisioners that sign messages, the iterations a message may be of,
\* the hashes of previous blocks and the digests of transactions and faults.
Keys == {"p0", "p1"}
Iterations == {0, 1}
PrevHashes == {"h0", "h1"}
Digests == {"d0", "d1"}

\* The lists of digests of up to n items.
Lists(n) == UNION {[1..k -> Digests] : k \in 0..n}

\* merkle_root: the root of a list of digests, one root per list.
merkle_root(digests) == <<"root", digests>>

\* The roots a header may carry for the list items: the root of the list and
\* the root of the list of one d0.
HeaderRoots(items) == {merkle_root(items), merkle_root(<<"d0">>)}

\* Block::size(), which may fail: Err, or Ok(bytes).
BlockSizes ==
    {[ok |-> FALSE, bytes |-> 0]}
        \cup {[ok |-> TRUE, bytes |-> n] :
                  n \in {MAX_BLOCK_SIZE, MAX_BLOCK_SIZE + 1}}

\* The candidate blocks of messages: header.prev_block_hash, txroot and faultroot, the
\* digests of txs and faults, and the size.
CandidateBlks ==
    {[prev_block_hash |-> prev, size |-> size,
      txs |-> txs, txroot |-> txroot,
      faults |-> faults, faultroot |-> faultroot] :
         prev \in PrevHashes, size \in BlockSizes,
         txs \in Lists(MAX_NUMBER_OF_TRANSACTIONS + 1),
         txroot \in UNION {HeaderRoots(l) :
                               l \in Lists(MAX_NUMBER_OF_TRANSACTIONS + 1)},
         faults \in Lists(MAX_NUMBER_OF_FAULTS + 1),
         faultroot \in UNION {HeaderRoots(l) :
                                  l \in Lists(MAX_NUMBER_OF_FAULTS + 1)}}

\* The candidate block of a message that is not a Candidate.
NoCandidate ==
    [prev_block_hash |-> "h0",
     size |-> [ok |-> TRUE, bytes |-> MAX_BLOCK_SIZE],
     txs |-> <<>>, txroot |-> merkle_root(<<>>),
     faults |-> <<>>, faultroot |-> merkle_root(<<>>)]

\* Payload::Candidate: the consensus header (prev_block_hash, iteration), the
\* signer, whether the signature verifies, and the candidate block.  The
\* consensus header of the messages is of previous block h0.
CandidateMsgs ==
    {[payload |-> "Candidate", prev_block_hash |-> "h0", iteration |-> it,
      signer |-> signer, signature_ok |-> sig, candidate |-> c] :
         it \in Iterations, signer \in Keys, sig \in BOOLEAN,
         c \in {b \in CandidateBlks :
                    /\ b.txroot \in HeaderRoots(b.txs)
                    /\ b.faultroot \in HeaderRoots(b.faults)}}

\* A message of another payload.
OtherMsg ==
    [payload |-> "Validation", prev_block_hash |-> "h0", iteration |-> 0,
     signer |-> "p0", signature_ok |-> TRUE, candidate |-> NoCandidate]

Messages == CandidateMsgs \cup {OtherMsg}

\* RoundCommittees: the generator of each iteration whose committee is made.
BothCommittees == [it \in Iterations |-> IF it = 0 THEN "p0" ELSE "p1"]
FirstCommittee == [it \in Iterations |-> IF it = 0 THEN "p0" ELSE "none"]

\* RoundCommittees::get_generator
get_generator(round_committees, iteration) == round_committees[iteration]

\* ProposalHandler::unwrap_msg
unwrap_msg(msg) ==
    IF msg.payload = "Candidate" THEN "Ok" ELSE "InvalidMsgType"

\* verify_candidate_msg with the two counts checked before the two roots.
verify_candidate_msgCountsFirst(p, expected_generator) ==
    IF expected_generator # p.signer THEN "NotCommitteeMember"
    ELSE IF ~p.candidate.size.ok THEN "UnknownBlockSize"
    ELSE IF p.candidate.size.bytes > MAX_BLOCK_SIZE THEN "InvalidBlockSize"
    ELSE IF ~p.signature_ok THEN "InvalidSignature"
    ELSE IF p.prev_block_hash # p.candidate.prev_block_hash
    THEN "InvalidBlockHash"
    ELSE IF Len(p.candidate.txs) > MAX_NUMBER_OF_TRANSACTIONS
    THEN "TooManyTransactions"
    ELSE IF Len(p.candidate.faults) > MAX_NUMBER_OF_FAULTS
    THEN "TooManyFaults"
    ELSE IF merkle_root(p.candidate.txs) # p.candidate.txroot
    THEN "InvalidBlock"
    ELSE IF merkle_root(p.candidate.faults) # p.candidate.faultroot
    THEN "InvalidBlock"
    ELSE "Ok"

\* verify_candidate_msg(p, expected_generator)
verify_candidate_msg(p, expected_generator) ==
    IF expected_generator # p.signer THEN "NotCommitteeMember"
    ELSE IF ~p.candidate.size.ok THEN "UnknownBlockSize"
    ELSE IF p.candidate.size.bytes > MAX_BLOCK_SIZE THEN "InvalidBlockSize"
    ELSE IF ~p.signature_ok THEN "InvalidSignature"
    ELSE IF p.prev_block_hash # p.candidate.prev_block_hash
    THEN "InvalidBlockHash"
    ELSE IF Len(p.candidate.txs) > MAX_NUMBER_OF_TRANSACTIONS
    THEN "TooManyTransactions"
    ELSE IF merkle_root(p.candidate.txs) # p.candidate.txroot
    THEN "InvalidBlock"
    ELSE IF Len(p.candidate.faults) > MAX_NUMBER_OF_FAULTS
    THEN "TooManyFaults"
    ELSE IF merkle_root(p.candidate.faults) # p.candidate.faultroot
    THEN "InvalidBlock"
    ELSE "Ok"

\* ProposalHandler::verify(msg, round_committees): Ok, an error, or the
\* panic of expect when the committee of the iteration is not made.
verify(msg, round_committees) ==
    IF unwrap_msg(msg) # "Ok" THEN unwrap_msg(msg)
    ELSE LET generator == get_generator(round_committees, msg.iteration)
         IN IF generator = "none" THEN "Panic"
            ELSE verify_candidate_msg(msg, generator)

\* Database::store_candidate_block
store_candidate_block(db, block) == db \cup {block}

\* collect that leaves the database as it is.
collectNoStore(db, msg) ==
    IF unwrap_msg(msg) # "Ok"
    THEN [db |-> db, outcome |-> [kind |-> "Err", of |-> unwrap_msg(msg)]]
    ELSE [db |-> db, outcome |-> [kind |-> "Ready", of |-> msg]]

\* ProposalHandler::collect and collect_from_past: the outcome and the
\* database after it.
collect(db, msg) ==
    IF unwrap_msg(msg) # "Ok"
    THEN [db |-> db, outcome |-> [kind |-> "Err", of |-> unwrap_msg(msg)]]
    ELSE [db |-> store_candidate_block(db, msg.candidate),
          outcome |-> [kind |-> "Ready", of |-> msg]]

NoOutcome == [kind |-> "none", of |-> "none"]

\* The databases the handler starts with: empty, or with one candidate.
Databases == {{}, {NoCandidate}}

\* The handler with a message at hand, before verify and collect.
ProposalHandlerNew(msg, round_committees, db) ==
    [msg |-> msg, round_committees |-> round_committees,
     verdict |-> "none", outcome |-> NoOutcome, from_past |-> FALSE,
     db |-> db]

\* ----------------------------------------------------------------- actions

\* What the environment decides during one event: how far an acceptance moves
\* finality, whether a revert succeeds, whether the database read fails.  An
\* event sees at most one of them off its usual value.
EnvOk ==
    [fin |-> "none", revert_ok |-> TRUE, stalled_revert_ok |-> TRUE,
     db_err |-> FALSE]

BlockEnvs ==
    {EnvOk, [EnvOk EXCEPT !.fin = "self"],
     [EnvOk EXCEPT !.revert_ok = FALSE],
     [EnvOk EXCEPT !.stalled_revert_ok = FALSE]}

Envs == BlockEnvs \cup {[EnvOk EXCEPT !.db_err = TRUE]}

\* The blocks the consensus of the model proposes and ratifies.
CandidateBlocks == {<<1, "b">>, <<2, "a">>}

Commit(s) ==
    /\ tip' = s.tip
    /\ final' = s.final
    /\ candidates' = s.candidates
    /\ curr' = s.curr
    /\ blacklisted_blocks' = s.blacklisted_blocks
    /\ attestations_cache' = s.attestations_cache
    /\ stalled_sm' = s.stalled_sm
    /\ UNCHANGED <<votes, nodes, lockVars, consVars, compVars>>

\* N >= 3f + 1 nodes of which f are Byzantine.
MaxFaulty == (NumNodes - 1) \div 3

Byzantine == 1..MaxFaulty

Honest == (1..NumNodes) \ Byzantine

InitChain ==
    /\ tip = Genesis
    /\ final = 0
    /\ candidates = {}
    /\ curr = InSyncImplNew
    /\ blacklisted_blocks = {}
    /\ attestations_cache = EmptyMap
    /\ stalled_sm = StalledRunning(Genesis)
    /\ votes = [n \in Honest |-> {}]
    /\ nodes = [n \in Honest |->
                   [tip |-> Genesis, blacklisted_blocks |-> {},
                    accepted |-> {}]]
    /\ acc_lock = [writer |-> "none", readers |-> {}]
    /\ tasks = [t \in {"fsm", "srv"} |->
                   [prog |-> <<>>, pc |-> 1, inflight |-> "none"]]
    /\ spin = SpinIdle
    /\ task = NoTask
    /\ future_msgs = {}
    /\ outbound = <<>>

\* No lock is held and no task is in a handler.
InitOrder ==
    /\ guards = [l \in {"acc", "db", "tip", "blacklist", "network"} |->
                     [writer |-> "none", readers |-> {}]]
    /\ runs = [t \in {"fsm", "srv"} |-> [prog |-> <<>>, pc |-> 1]]

Init ==
    /\ InitChain
    /\ InitOrder
    /\ proposal = ProposalHandlerNew(OtherMsg, BothCommittees, {})

\* A block from a peer or from the local consensus.
OnBlockEvent(blk, att, src, env) ==
    /\ blk \in Hashes
    /\ Commit(on_block_event(St, blk, att, src, env).s)

\* A quorum message from a peer or from the local consensus.
OnQuorumMsg(success, hash, att, round, src, env) ==
    /\ hash \in Hashes
    /\ Commit(on_quorum_msg(St, success, hash, att, round, src, env).s)

OnHeartbeatEvent ==
    /\ curr.state \in {"InSync", "OutOfSync"}
    /\ Commit(on_heartbeat_event(St))

\* The consensus stores a candidate block.
StoreCandidate(hash) ==
    /\ hash \notin candidates
    /\ Commit([St EXCEPT !.candidates = @ \cup {hash}])

Later(s, d, stale) ==
    [s EXCEPT
        !.curr.presync.expiry = Max(0, @ - d),
        !.curr.start_time =
            IF s.curr.state = "OutOfSync"
            THEN Min(EXPIRY_TIMEOUT_MILLIS, @ + d) ELSE @,
        !.attestations_cache =
            [hash \in DOMAIN @ |-> [@[hash] EXCEPT !.expiry = Max(0, @ - d)]],
        !.stalled_sm.stale = stale]

\* Time passes; the budget of the stalled-chain machine may run out.
Tick(d, stale) ==
    /\ stalled_sm.stale => stale
    /\ Later(St, d, stale) # St
    /\ Commit(Later(St, d, stale))

\* The blocks the peers and the local consensus send in Spec.
SyncBlocks == Hashes \ {<<2, "b">>, <<2, "x">>, <<1, "d">>}

SyncTicks == {EXPIRY_TIMEOUT_MILLIS, PRESYNC_DEFAULT_TIMEOUT}

Next ==
    \/ \E blk \in SyncBlocks, src \in Sources, env \in BlockEnvs :
           OnBlockEvent(blk, 1, src, env)
    \/ OnHeartbeatEvent
    \/ \E d \in SyncTicks, stale \in BOOLEAN : Tick(d, stale)

\* The chain FSM under block events, heartbeats and the passing of time.
Spec == Init /\ [][Next]_vars

\* The blocks the peers send in SpecBlacklist: the chain "a" up to height 2
\* and the blocks of iteration 0 next to it that fail verification.
BlacklistBlocks == {<<1, "a">>, <<2, "a">>, <<1, "x">>, <<2, "x">>}

NextBlacklist ==
    \/ \E blk \in BlacklistBlocks, src \in Sources, env \in BlockEnvs :
           OnBlockEvent(blk, 1, src, env)
    \/ OnHeartbeatEvent
    \/ \E stale \in BOOLEAN : Tick(EXPIRY_TIMEOUT_MILLIS, stale)

\* The chain FSM under the block events of a fork at heights 1 and 2.
SpecBlacklist == Init /\ [][NextBlacklist]_vars

\* The blocks the peers send in SpecTimer: the chain "a" and a block next to
\* it that fails verification.
TimerBlocks == {<<h, "a">> : h \in 1..MaxHeight} \cup {<<1, "x">>}

\* The step of the clock in SpecTimer: half of the expiry of a sync.
TimerTick == EXPIRY_TIMEOUT_MILLIS \div 2

NextTimer ==
    \/ \E blk \in TimerBlocks, src \in Sources : OnBlockEvent(blk, 1, src, EnvOk)
    \/ OnHeartbeatEvent
    \/ \E stale \in BOOLEAN : Tick(TimerTick, stale)

\* The chain FSM with a clock that shows a sync before and after its expiry.
SpecTimer == Init /\ [][NextTimer]_vars

\* The blocks of the quorum messages and block events of SpecQuorum.
QuorumBlocks == {<<1, "a">>, <<1, "b">>, <<2, "a">>}

\* The rounds of the quorum messages of SpecQuorum.
QuorumRounds == 1..(MaxHeight - 1)

\* The step of the clock in SpecQuorum: half of the life of a cache entry.
QuorumTick == DEFAULT_ATT_CACHE_EXPIRY \div 2

\* What the database does during a quorum message.
QuorumEnvs == {EnvOk, [EnvOk EXCEPT !.db_err = TRUE]}

NextQuorum ==
    \/ \E success \in BOOLEAN, hash \in QuorumBlocks, att \in Atts,
          round \in QuorumRounds, env \in QuorumEnvs :
           OnQuorumMsg(success, hash, att, round, NoPeer, env)
    \/ \E hash \in CandidateBlocks : StoreCandidate(hash)
    \/ \E blk \in QuorumBlocks, att \in Atts \cup {DefaultAtt} :
           OnBlockEvent(blk, att, NoPeer, EnvOk)
    \/ Tick(QuorumTick, FALSE)

\* The chain FSM under quorum messages, candidates and blocks with and
\* without attestation.
SpecQuorum == Init /\ [][NextQuorum]_vars

\* ---------------------------------------------------------- the network

\* The candidates of round 1: the one of iteration 0 and, with a generator
\* that equivocates, two of iteration 1.
RoundCandidates == {<<1, "b">>, <<1, "a">>, <<1, "d">>}

\* A quorum of half of the committee.
QuorumSizeHalf(size) == (50 * size + 99) \div 100

\* The quorum of a committee: ceil(CONSENSUS_QUORUM_THRESHOLD * size), with
\* the threshold of 0.67.
QuorumSize(size) == (67 * size + 99) \div 100

\* The members whose vote for blk a quorum certificate can carry: the honest
\* nodes that voted for it and the Byzantine nodes, which sign anything.
Signers(blk) == {n \in Honest : blk \in votes[n]} \cup Byzantine

HasQuorum(blk) == Cardinality(Signers(blk)) >= QuorumSize(NumNodes)

\* The chain FSM of the honest node n, in InSync.
NodeSt(n) ==
    [tip |-> nodes[n].tip, final |-> 0, candidates |-> {},
     curr |-> InSyncImplNew,
     blacklisted_blocks |-> nodes[n].blacklisted_blocks,
     attestations_cache |-> EmptyMap,
     stalled_sm |-> StalledRunning(nodes[n].tip),
     sent |-> <<>>, accepted |-> <<>>, restarts |-> 0, path |-> <<>>]

\* The honest node n, in round 1 as long as it has accepted no block of it,
\* votes for a candidate, once in an iteration and one iteration after the
\* other.
CastVote(n, blk) ==
    /\ nodes[n].tip = Genesis
    /\ \A other \in votes[n] : Iteration(other) < Iteration(blk)
    /\ votes' = [votes EXCEPT ![n] = @ \cup {blk}]
    /\ UNCHANGED <<tip, final, candidates, curr, blacklisted_blocks,
                   attestations_cache, stalled_sm, nodes,
                   lockVars, consVars, compVars>>

\* A block with a quorum reaches the chain FSM of the honest node n.
DeliverBlock(n, blk) ==
    /\ HasQuorum(blk)
    /\ LET e == on_block_event(NodeSt(n), blk, 1, NoPeer, EnvOk)
           after ==
               [tip |-> e.s.tip,
                blacklisted_blocks |-> e.s.blacklisted_blocks,
                accepted |->
                    nodes[n].accepted
                        \cup {e.s.accepted[i].hash : i \in DOMAIN e.s.accepted}]
       IN /\ after # nodes[n]
          /\ nodes' = [nodes EXCEPT ![n] = after]
    /\ UNCHANGED <<tip, final, candidates, curr, blacklisted_blocks,
                   attestations_cache, stalled_sm, votes,
                   lockVars, consVars, compVars>>

NextAgreement ==
    \/ \E n \in Honest, blk \in RoundCandidates : CastVote(n, blk)
    \/ \E n \in Honest, blk \in RoundCandidates : DeliverBlock(n, blk)

\* Round 1 in a network of NumNodes nodes, MaxFaulty of them Byzantine.
SpecAgreement == Init /\ [][NextAgreement]_vars

\* The blocks the peers send in SpecFork: the chain "a" up to height 3 and the
\* blocks next to it at heights 1 and 2.
ForkSpecBlocks == {<<h, "a">> : h \in 1..3} \cup ForkBlocks

NextFork ==
    \/ \E blk \in ForkSpecBlocks, src \in Sources, env \in BlockEnvs :
           OnBlockEvent(blk, 1, src, env)
    \/ OnHeartbeatEvent

\* The chain FSM under the block events of forks at and below the tip.
SpecFork == Init /\ [][NextFork]_vars

\* The clock of SpecSyncLive. A short step, half of the expiry of a sync,
\* leaves the budget of the stalled-chain machine as it is; a long step, the
\* whole expiry, may use it up: the machine detects prolonged non-progress,
\* and the budget is taken to be no shorter than the expiry of a sync.
ShortStep == Tick(TimerTick, stalled_sm.stale)

LongStep == \E stale \in BOOLEAN : Tick(EXPIRY_TIMEOUT_MILLIS, stale)

NextSync ==
    \/ \E blk \in TimerBlocks, src \in Sources :
           OnBlockEvent(blk, 1, src, EnvOk)
    \/ OnHeartbeatEvent
    \/ ShortStep
    \/ LongStep

\* The heartbeat keeps coming and the clock keeps going: a heartbeat that
\* has something to do is handled, and time passes as long as a timer runs.
SyncFairness ==
    /\ WF_vars(OnHeartbeatEvent)
    /\ WF_vars(ShortStep \/ LongStep)

\* The chain FSM under the blocks of its peers, with heartbeats and a clock
\* that do not stop.
SpecSyncLive == Init /\ [][NextSync]_vars /\ SyncFairness

\* ------------------------------------------------- the Acceptor lock

\* The calls that change the Acceptor.
AcceptorWrites == {"try_accept_block", "try_revert", "restart_consensus"}

\* k calls of try_accept_block in a row.
RECURSIVE Accepts(_)
Accepts(k) == IF k = 0 THEN <<>> ELSE <<"try_accept_block">> \o Accepts(k - 1)

\* What a handler does with acc: Arc<RwLock<Acceptor>>, in the order of the
\* code, one sequence for each path through it: "write" is acc.write().await,
\* "read" is acc.read().await, "unlock" the end of the scope of the guard.

\* SimpleFSM::on_failed_consensus.
on_failed_consensus == {<<"write", "restart_consensus", "unlock">>}

\* InSyncImpl::on_entering with the guard of a reader.
InSyncOnEnteringReadLock ==
    {<<"read", "unlock">>, <<"read", "try_accept_block", "unlock">>}

\* InSyncImpl::on_entering.
InSyncOnEnteringLocks ==
    {<<"write", "unlock">>, <<"write", "try_accept_block", "unlock">>}

\* InSyncImpl::on_block_event: nothing to do, the fallback with a failed and
\* with a successful revert, the successor of the tip.
InSyncOnBlockEventLocks ==
    {<<"write", "unlock">>,
     <<"write", "try_revert", "unlock">>,
     <<"write", "try_revert", "try_accept_block", "unlock">>,
     <<"write", "try_accept_block", "unlock">>}

\* OutOfSyncImpl::on_entering.
OutOfSyncOnEnteringLocks == {<<"read", "unlock">>}

\* OutOfSyncImpl::on_block_event: the expired sync, the stale or pooled
\* block, the successor of the tip with the blocks drained from the pool,
\* with and without the end of the sync.
OutOfSyncOnBlockEventLocks ==
    {<<"write", "restart_consensus", "unlock">>, <<"write", "unlock">>}
        \cup {<<"write">> \o Accepts(k) \o rest :
                  k \in 1..(MAX_BLOCKS_TO_REQUEST + 1),
                  rest \in {<<"unlock">>, <<"restart_consensus", "unlock">>}}

\* OutOfSyncImpl::on_heartbeat: no retry left, or a request for the blocks.
OutOfSyncOnHeartbeatLocks ==
    {<<"write", "restart_consensus", "unlock">>, <<"read", "unlock">>}

\* SimpleFSM::on_block_event, the recovery from StalledOnFork.
StalledOnForkLocks ==
    {<<"write", "unlock">>,
     <<"write", "try_revert", "unlock">>,
     <<"write", "try_revert", "try_accept_block", "unlock">>}

\* SimpleFSM::on_quorum_msg: the tip header and the database handle.
on_quorum_msgLocks == {<<"read", "unlock", "read", "unlock">>}

\* The chain FSM, whose handlers take &mut self and so run one at a time,
\* and another holder of the Acceptor.
Tasks == {"fsm", "srv"}

\* The other holders of the Acceptor write under the write lock and read
\* under the read lock.
AcceptorUserLocks ==
    {<<"write", op, "unlock">> : op \in AcceptorWrites}
        \cup {<<"read", "unlock">>}

LockPrograms(t) ==
    IF t = "fsm"
    THEN on_failed_consensus \cup InSyncOnEnteringLocks
             \cup InSyncOnBlockEventLocks \cup OutOfSyncOnEnteringLocks
             \cup OutOfSyncOnBlockEventLocks \cup OutOfSyncOnHeartbeatLocks
             \cup StalledOnForkLocks \cup on_quorum_msgLocks
    ELSE AcceptorUserLocks

Idle == [prog |-> <<>>, pc |-> 1, inflight |-> "none"]

\* The task after the step at pc.
Advance(tk) ==
    IF tk.pc = Len(tk.prog) THEN Idle
    ELSE [tk EXCEPT !.pc = @ + 1, !.inflight = "none"]

AtStep(t, step) ==
    /\ tasks[t].prog # <<>>
    /\ tasks[t].inflight = "none"
    /\ tasks[t].prog[tasks[t].pc] = step

fsmVars ==
    <<tip, final, candidates, curr, blacklisted_blocks, attestations_cache,
      stalled_sm, votes, nodes>>

\* A handler starts.
StartHandler(t, prog) ==
    /\ tasks[t] = Idle
    /\ prog \in LockPrograms(t)
    /\ tasks' = [tasks EXCEPT ![t] = [Idle EXCEPT !.prog = prog]]
    /\ UNCHANGED <<acc_lock, fsmVars, consVars, compVars>>

\* RwLock::write: no writer and no reader holds the lock.
AcquireWrite(t) ==
    /\ AtStep(t, "write")
    /\ acc_lock.writer = "none" /\ acc_lock.readers = {}
    /\ acc_lock' = [acc_lock EXCEPT !.writer = t]
    /\ tasks' = [tasks EXCEPT ![t] = Advance(@)]
    /\ UNCHANGED <<fsmVars, consVars, compVars>>

\* RwLock::read: no writer holds the lock.
AcquireRead(t) ==
    /\ AtStep(t, "read")
    /\ acc_lock.writer = "none"
    /\ acc_lock' = [acc_lock EXCEPT !.readers = @ \cup {t}]
    /\ tasks' = [tasks EXCEPT ![t] = Advance(@)]
    /\ UNCHANGED <<fsmVars, consVars, compVars>>

\* The guard goes out of scope.
Release(t) ==
    /\ AtStep(t, "unlock")
    /\ acc_lock' =
           [writer |-> IF acc_lock.writer = t THEN "none" ELSE acc_lock.writer,
            readers |-> acc_lock.readers \ {t}]
    /\ tasks' = [tasks EXCEPT ![t] = Advance(@)]
    /\ UNCHANGED <<fsmVars, consVars, compVars>>

\* A call of the Acceptor starts ...
BeginCall(t) ==
    /\ \E op \in AcceptorWrites : AtStep(t, op)
    /\ tasks' = [tasks EXCEPT ![t].inflight = tasks[t].prog[tasks[t].pc]]
    /\ UNCHANGED <<acc_lock, fsmVars, consVars, compVars>>

\* ... and returns.
EndCall(t) ==
    /\ tasks[t].inflight # "none"
    /\ tasks' = [tasks EXCEPT ![t] = Advance(@)]
    /\ UNCHANGED <<acc_lock, fsmVars, consVars, compVars>>

NextLock ==
    \/ \E t \in Tasks : \E prog \in LockPrograms(t) : StartHandler(t, prog)
    \/ \E t \in Tasks : AcquireWrite(t)
    \/ \E t \in Tasks : AcquireRead(t)
    \/ \E t \in Tasks : Release(t)
    \/ \E t \in Tasks : BeginCall(t)
    \/ \E t \in Tasks : EndCall(t)

\* The handlers of the chain FSM and another holder of the Acceptor, step by
\* step through their uses of the lock.
SpecLock == Init /\ [][NextLock]_vars

\* ------------------------------------------------- the order of the locks

\* The locks of the chain FSM: acc is Arc<RwLock<Acceptor>>, db and tip are
\* the locks of the Acceptor's fields, blacklist is blacklisted_blocks,
\* network is Arc<RwLock<N>>.
LockNames == {"acc", "db", "tip", "blacklist", "network"}

\* The steps of a handler on a lock: l.read().await, l.write().await, and the
\* end of the life of the guard.
Rd(l) == <<"read", l>>
Wr(l) == <<"write", l>>
Un(l) == <<"unlock", l>>

\* A guard that lives for one statement.
Use(l) == <<Rd(l), Un(l)>>
Change(l) == <<Wr(l), Un(l)>>

\* let mut acc = self.acc.write().await; held to the end of the scope.
HeldAcc(body) == <<Wr("acc")>> \o body \o <<Un("acc")>>

\* The uses of the locks by the handlers, in the order of the code, one
\* sequence for each path.

\* SimpleFSM::on_failed_consensus.
on_failed_consensusGuards == {Change("acc")}

\* SimpleFSM::on_block_event: the test of the blacklist.
BlacklistTestGuards == {Use("blacklist")}

\* InSyncImpl::on_entering.
InSyncOnEnteringGuards == {HeldAcc(<<>>)}

\* InSyncImpl::on_block_event, remote_height <= tip height: whether the
\* block is known (no lock at the height of the tip, the database below),
\* whether its prev block is, the local block (the tip or the database), the
\* state of the prev block, the blacklist after the revert, the network to
\* send the local block.
InSyncNotAboveGuards ==
    LET known == {<<>>, Use("db")}
        local == [k \in known |-> IF k = <<>> THEN Use("tip") ELSE Use("db")]
    IN {HeldAcc(k) : k \in known}
           \cup {HeldAcc(k \o Use("db")) : k \in known}
           \cup {HeldAcc(k \o Use("db") \o local[k] \o rest) :
                     k \in known,
                     rest \in {<<>>, Use("db"),
                               Use("db") \o Change("blacklist"),
                               Use("network")}}

\* InSyncImpl::on_block_event, the successor of the tip: the blacklist is
\* cleared when the chain finalizes.
InSyncSuccessorGuards == {HeldAcc(<<>>), HeldAcc(Change("blacklist"))}

\* InSyncImpl::on_block_event, a block above: request_block_by_height reads
\* the network twice.
InSyncAboveGuards ==
    {HeldAcc(<<>>), HeldAcc(Use("network") \o Use("network"))}

\* OutOfSyncImpl::on_entering.
OutOfSyncOnEnteringGuards == {Use("acc") \o Use("network")}

\* OutOfSyncImpl::on_block_event.
OutOfSyncOnBlockEventGuards == {HeldAcc(<<>>)}

\* OutOfSyncImpl::on_heartbeat: the sync given up, or the missing blocks
\* requested (if any).
OutOfSyncOnHeartbeatGuards ==
    {Change("acc"), Use("acc"), Use("acc") \o Use("network")}

\* The stalled-chain step that takes the blacklist before the Acceptor.
StalledStepGuardsBlacklistFirst ==
    {<<Wr("blacklist"), Wr("acc")>> \o Use("db")
         \o <<Un("acc"), Un("blacklist")>>,
     Change("blacklist")}

\* SimpleFSM::on_block_event, the stalled-chain step: the recovery from
\* StalledOnFork without and with the entry in the blacklist, and the
\* blacklist cleared in Stalled.
StalledStepGuards ==
    {HeldAcc(Use("db")), HeldAcc(Use("db") \o Change("blacklist")),
     Change("blacklist")}

\* SimpleFSM::on_quorum_msg before it goes on to on_block_event: the tip
\* header and the database handle, the candidate, flood_request_block.
on_quorum_msgGuards ==
    {Use("acc") \o Use("acc") \o rest :
         rest \in {<<>>, Use("network"), Use("db"),
                   Use("db") \o Use("network")}}

\* The other holders of the locks take the Acceptor first and one of the
\* other locks under it, or one lock alone.
OtherHolderGuards ==
    LET Modes == {"read", "write"}
        Guard(mode, l) == <<<<mode, l>>, Un(l)>>
    IN {<<<<first, "acc">>>> \o Guard(mode, l) \o <<Un("acc")>> :
            first \in Modes, mode \in Modes, l \in LockNames \ {"acc"}}
           \cup {Guard(mode, l) : mode \in Modes, l \in LockNames}

GuardPrograms(t) ==
    IF t = "fsm"
    THEN on_failed_consensusGuards \cup BlacklistTestGuards
             \cup InSyncOnEnteringGuards \cup InSyncNotAboveGuards
             \cup InSyncSuccessorGuards \cup InSyncAboveGuards
             \cup OutOfSyncOnEnteringGuards \cup OutOfSyncOnBlockEventGuards
             \cup OutOfSyncOnHeartbeatGuards \cup StalledStepGuards
             \cup on_quorum_msgGuards
    ELSE OtherHolderGuards

Busy(t) == runs[t].prog # <<>>

NextStep(t) == runs[t].prog[runs[t].pc]

\* The locks of which the task holds a guard.
HeldBy(t) ==
    {l \in LockNames : guards[l].writer = t \/ t \in guards[l].readers}

\* tokio's RwLock: a writer needs the lock free, a reader needs no writer.
CanTake(t, step) ==
    IF step[1] = "write"
    THEN guards[step[2]].writer = "none" /\ guards[step[2]].readers = {}
    ELSE guards[step[2]].writer = "none"

Moved(t) ==
    IF runs[t].pc = Len(runs[t].prog)
    THEN [runs EXCEPT ![t] = [prog |-> <<>>, pc |-> 1]]
    ELSE [runs EXCEPT ![t].pc = @ + 1]

orderRest == <<fsmVars, lockVars, consVars, proposal>>

\* A handler of the chain FSM (one at a time: they take &mut self) or
\* another holder begins.
BeginGuards(t, prog) ==
    /\ ~Busy(t)
    /\ prog \in GuardPrograms(t)
    /\ runs' = [runs EXCEPT ![t] = [prog |-> prog, pc |-> 1]]
    /\ UNCHANGED <<guards, orderRest>>

\* l.read().await or l.write().await returns the guard.
TakeGuard(t) ==
    /\ Busy(t)
    /\ NextStep(t)[1] \in {"read", "write"}
    /\ CanTake(t, NextStep(t))
    /\ guards' =
           [guards EXCEPT
               ![NextStep(t)[2]] =
                   IF NextStep(t)[1] = "write"
                   THEN [@ EXCEPT !.writer = t]
                   ELSE [@ EXCEPT !.readers = @ \cup {t}]]
    /\ runs' = Moved(t)
    /\ UNCHANGED orderRest

\* The guard is dropped.
DropGuard(t) ==
    /\ Busy(t)
    /\ NextStep(t)[1] = "unlock"
    /\ guards' =
           [guards EXCEPT
               ![NextStep(t)[2]] =
                   [writer |-> IF @.writer = t THEN "none" ELSE @.writer,
                    readers |-> @.readers \ {t}]]
    /\ runs' = Moved(t)
    /\ UNCHANGED orderRest

NextOrder ==
    \/ \E t \in Tasks : \E prog \in GuardPrograms(t) : BeginGuards(t, prog)
    \/ \E t \in Tasks : TakeGuard(t)
    \/ \E t \in Tasks : DropGuard(t)

\* The handlers of the chain FSM and another holder of its locks, step by
\* step through their guards.
SpecOrder == Init /\ [][NextOrder]_vars

\* ------------------------------------------------- the consensus loop

\* The task runs, or runs on until it reaches a suspension point after
\* JoinHandle::abort.
Live == task.status \in {"running", "aborting"}

\* The loop that ends the round on a quorum of success.
AfterStepUntilSuccess(t) ==
    IF t.msg.topic = "Quorum" /\ t.msg.success
    THEN [t EXCEPT !.status = "finished", !.result = "Ok"]
    ELSE IF t.phase < Len(Phases)
    THEN [t EXCEPT !.pc = "reinit", !.phase = @ + 1]
    ELSE [t EXCEPT !.pc = "close"]

\* The task after the step in phase: the next phase, or the end of the for
\* loop.
AfterStep(t) ==
    IF t.phase < Len(Phases)
    THEN [t EXCEPT !.pc = "reinit", !.phase = @ + 1]
    ELSE [t EXCEPT !.pc = "close"]

\* JoinHandle::is_finished
IsFinished(t) == t.status \in {"finished", "aborted"}

\* abort() that does not wait for the task.
JoinedDetached(t) == TRUE

\* abort(): h.await returns.
Joined(t) == IsFinished(t)

chainVars == <<fsmVars, lockVars, compVars>>

\* Consensus::spin(ru, provisioners, cancel_rx) up to the select.
Spin(round) ==
    /\ spin.pc \in {"idle", "returned"}
    /\ spin' = [pc |-> "select", round |-> round, cancel |-> FALSE,
                signalled |-> "none", result |-> "none"]
    /\ task' = TaskSpawned
    /\ UNCHANGED <<future_msgs, outbound, chainVars>>

\* The task up to the loop: the eviction, the registries and the handlers,
\* iter and iter_ctx.
StartRound ==
    /\ Live /\ task.pc = "evict"
    /\ future_msgs' = EvictFutureMsgs(future_msgs, spin.round)
    /\ task' = [task EXCEPT
                   !.pc = "delay", !.iter = 0, !.phase = 1,
                   !.msg = MessageEmpty, !.step_msg = MessageEmpty,
                   !.iter_ctx = IterationCtxNew(BaseTimeouts)]
    /\ outbound' = <<>>
    /\ UNCHANGED <<spin, chainVars>>

\* The start of an iteration with an iteration context made for it.
BeginIterationFreshCtx ==
    /\ Live /\ task.pc = "delay"
    /\ task' = [task EXCEPT !.pc = "reinit", !.phase = 1,
                            !.msg = MessageEmpty,
                            !.iter_ctx = IterationCtxNew(BaseTimeouts)]
    /\ UNCHANGED <<spin, future_msgs, outbound, chainVars>>

\* consensus_delay, iter_ctx.on_begin(iter) and the empty message.
BeginIteration ==
    /\ Live /\ task.pc = "delay"
    /\ task' = [task EXCEPT !.pc = "reinit", !.phase = 1,
                            !.msg = MessageEmpty]
    /\ UNCHANGED <<spin, future_msgs, outbound, chainVars>>

\* phase.reinitialize(msg, ru.round, iter) and the execution context; the
\* outbound queue from here on holds what is sent since the step began.
Reinitialize ==
    /\ Live /\ task.pc = "reinit"
    /\ task' = [task EXCEPT !.pc = "run", !.step_msg = task.msg]
    /\ outbound' = <<>>
    /\ UNCHANGED <<spin, future_msgs, chainVars>>

\* msg = phase.run(ctx).await? and the test of the topic.
RunPhase(out) ==
    /\ Live /\ task.pc = "run"
    /\ IF out.err
       THEN /\ task' = [task EXCEPT !.status = "finished", !.result = "Err"]
            /\ UNCHANGED outbound
       ELSE LET step == Phases[task.phase]
                ran == [task EXCEPT
                           !.msg = out.msg,
                           !.iter_ctx =
                               IF out.timeout THEN on_timeout_event(@, step)
                               ELSE @]
            IN /\ task' = IF NeedsForward(out.msg)
                          THEN [ran EXCEPT !.pc = "send"]
                          ELSE AfterStep(ran)
               /\ outbound' = IF out.vote
                              THEN Append(outbound, Vote(step, task.iter))
                              ELSE outbound
    /\ UNCHANGED <<spin, future_msgs, chainVars>>

\* The running step stashes a message of a later iteration or round, under
\* its round.
Stash(round) ==
    /\ Live /\ task.pc = "run"
    /\ round >= spin.round
    /\ round \notin future_msgs
    /\ future_msgs' = future_msgs \cup {round}
    /\ UNCHANGED <<spin, task, outbound, chainVars>>

\* The running step takes the messages stashed for it.
Replay ==
    /\ Live /\ task.pc = "run"
    /\ spin.round \in future_msgs
    /\ future_msgs' = future_msgs \ {spin.round}
    /\ UNCHANGED <<spin, task, outbound, chainVars>>

\* sender.send_quorum(msg.clone())
SendQuorum ==
    /\ Live /\ task.pc = "send"
    /\ outbound' = Append(outbound, task.msg)
    /\ task' = AfterStep(task)
    /\ UNCHANGED <<spin, future_msgs, chainVars>>

\* iter_ctx.on_close() and iter += 1: at the end of the range of u8 the task
\* panics when the build checks the overflow, and starts again from 0
\* otherwise.
CloseIteration(overflow_checks) ==
    /\ Live /\ task.pc = "close"
    /\ task' = IF task.iter + 1 < U8
               THEN [task EXCEPT !.pc = "delay", !.iter = @ + 1]
               ELSE IF overflow_checks
               THEN [task EXCEPT !.status = "finished", !.result = "Panic"]
               ELSE [task EXCEPT !.pc = "delay", !.iter = (@ + 1) % U8]
    /\ UNCHANGED <<spin, future_msgs, outbound, chainVars>>

\* The caller of spin sends the cancel signal.
CancelFires ==
    /\ spin.pc = "select"
    /\ ~spin.cancel
    /\ spin' = [spin EXCEPT !.cancel = TRUE, !.signalled = task.status]
    /\ UNCHANGED <<task, future_msgs, outbound, chainVars>>

\* select!, the branch of cancel_rx.
SelectCancel ==
    /\ spin.pc = "select"
    /\ spin.cancel
    /\ spin' = [spin EXCEPT !.pc = "teardown", !.result = "Canceled"]
    /\ UNCHANGED <<task, future_msgs, outbound, chainVars>>

\* select!, the branch of the handle: a panic of the task is a JoinError,
\* which `?` returns as Canceled(round) at once.
SelectHandle ==
    /\ spin.pc = "select"
    /\ IsFinished(task)
    /\ spin' = IF task.result = "Panic"
               THEN [spin EXCEPT !.pc = "returned", !.result = "Canceled"]
               ELSE [spin EXCEPT !.pc = "teardown", !.result = task.result]
    /\ UNCHANGED <<task, future_msgs, outbound, chainVars>>

\* abort(&mut handle) up to h.abort().
Abort ==
    /\ spin.pc = "teardown"
    /\ IF IsFinished(task)
       THEN /\ spin' = [spin EXCEPT !.pc = "returned"]
            /\ UNCHANGED task
       ELSE /\ spin' = [spin EXCEPT !.pc = "join"]
            /\ task' = [task EXCEPT !.status = "aborting"]
    /\ UNCHANGED <<future_msgs, outbound, chainVars>>

\* The aborted task is dropped at a suspension point.
TaskCancelled ==
    /\ task.status = "aborting"
    /\ task' = [task EXCEPT !.status = "aborted"]
    /\ UNCHANGED <<spin, future_msgs, outbound, chainVars>>

\* abort(&mut handle): h.await returns, and spin returns result.
Join ==
    /\ spin.pc = "join"
    /\ Joined(task)
    /\ spin' = [spin EXCEPT !.pc = "returned"]
    /\ UNCHANGED <<task, future_msgs, outbound, chainVars>>

\* The results of the steps in SpecLoop: every step in time.
LoopOutcomes == ReadyOutcomes(Phases[task.phase], task.iter) \cup {Fatal}

NextLoop ==
    \/ Spin(1)
    \/ StartRound
    \/ BeginIteration
    \/ Reinitialize
    \/ \E out \in LoopOutcomes : RunPhase(out)
    \/ SendQuorum
    \/ \E overflow_checks \in BOOLEAN : CloseIteration(overflow_checks)

\* One round of the consensus loop, through all the values of iter.
SpecLoop == Init /\ [][NextLoop]_vars

\* The results of the steps in SpecSpin: in time, with the vote of the node.
SpinOutcomes ==
    {out \in ReadyOutcomes(Phases[task.phase], task.iter) : out.vote}
        \cup {Fatal}

NextSpin ==
    \/ \E round \in 0..MaxRound : Spin(round)
    \/ StartRound
    \/ BeginIteration
    \/ Reinitialize
    \/ \E out \in SpinOutcomes : RunPhase(out)
    \/ \E round \in 0..(MaxRound + 1) : Stash(round)
    \/ Replay
    \/ SendQuorum
    \/ task.iter + 1 < MaxIterations /\ CloseIteration(TRUE)
    \/ CancelFires
    \/ SelectCancel
    \/ SelectHandle
    \/ Abort
    \/ TaskCancelled
    \/ Join

\* Rounds of consensus that are cancelled or fail, and the registry of
\* future messages across them.
SpecSpin == Init /\ [][NextSpin]_vars

\* The results of the steps in SpecTimeout: in time or not.
TimeoutOutcomes ==
    {Outcome(msg, FALSE, FALSE) :
         msg \in StepReady(Phases[task.phase], task.iter)}
        \cup {TimeoutOutcome, Fatal}

NextTimeout ==
    \/ \E round \in 0..MaxRound : Spin(round)
    \/ StartRound
    \/ BeginIteration
    \/ Reinitialize
    \/ \E out \in TimeoutOutcomes : RunPhase(out)
    \/ SendQuorum
    \/ task.iter + 1 < MaxIterations /\ CloseIteration(TRUE)
    \/ SelectHandle
    \/ Abort

\* Rounds of consensus whose steps time out.
SpecTimeout == Init /\ [][NextTimeout]_vars

\* ------------------------------------------ the steps of the ProposalHandler

restVars == <<fsmVars, lockVars, consVars, orderVars>>

\* ProposalHandler::verify on the message at hand.
Verify ==
    /\ proposal.verdict = "none"
    /\ proposal' = [proposal EXCEPT
                       !.verdict = verify(proposal.msg,
                                          proposal.round_committees)]
    /\ UNCHANGED restVars

\* ProposalHandler::collect on the message at hand.
Collect ==
    /\ proposal.outcome = NoOutcome
    /\ LET r == collect(proposal.db, proposal.msg)
       IN proposal' = [proposal EXCEPT !.db = r.db, !.outcome = r.outcome]
    /\ UNCHANGED restVars

\* ProposalHandler::collect_from_past on the message at hand.
CollectFromPast ==
    /\ proposal.outcome = NoOutcome
    /\ LET r == collect(proposal.db, proposal.msg)
       IN proposal' = [proposal EXCEPT !.db = r.db, !.outcome = r.outcome,
                                       !.from_past = TRUE]
    /\ UNCHANGED restVars

\* A handler with any message at hand.
InitProposal ==
    /\ InitChain
    /\ InitOrder
    /\ \E msg \in Messages :
           \E round_committees \in {BothCommittees, FirstCommittee} :
               \E db \in Databases :
                   proposal = ProposalHandlerNew(msg, round_committees, db)

NextProposal ==
    \/ Verify
    \/ Collect
    \/ CollectFromPast

\* The ProposalHandler on one message.
SpecProposal == InitProposal /\ [][NextProposal]_vars

\* ------------------------------------------------------------------ claims

\* The case of the fallback at the height of the tip: a verified block of the
\* height of the tip, another block than the tip, whose parent is in the
\* chain, above the latest finalized block, of a lower iteration than the tip.
FallbackCase(s, remote_blk) ==
    /\ s.curr.state = "InSync"
    /\ Height(remote_blk) = Height(s.tip)
    /\ remote_blk # s.tip
    /\ InChain(s.tip, PrevBlockHash(remote_blk))
    /\ Height(remote_blk) > s.final
    /\ Iteration(remote_blk) < Iteration(s.tip)

C2_Transactional ==
    \A remote_blk \in SyncBlocks, src \in Sources, env \in BlockEnvs :
        FallbackCase(St, remote_blk)
            => LET r == InSyncOnBlockEvent(St, remote_blk, src, env)
               IN r.s.tip # remote_blk
                      => /\ r.s.tip = tip
                         /\ r.s.blacklisted_blocks = blacklisted_blocks

\* C3: while the FSM is in OutOfSync, no event reduces the height of the tip.
C3_SyncMonotonic ==
    [][curr.state = "OutOfSync" => Height(tip') >= Height(tip)]_vars

\* Whether the block event of blk from src in InSync is one that may take the
\* FSM to OutOfSync: a presync record is there (and, with live, has not
\* expired), src is its peer, blk is of the height after its start height and
\* is accepted; the pool then holds the recorded target alone.
PresyncGate(s, blk, src, after, live) ==
    LET presync == s.curr.presync
    IN /\ presync # NoPresync
       /\ live => presync.expiry > 0
       /\ src = presync.peer_addr
       /\ Height(blk) = presync.start_height + 1
       /\ after.accepted # <<>>
       /\ after.accepted[1] = [hash |-> blk, enable_consensus |-> TRUE]
       /\ after.curr.peer_addr = presync.peer_addr
       /\ after.curr.pool
              = MapInsert(EmptyMap, Height(presync.target_blk),
                          presync.target_blk)

\* The parts of C6 about a block more than one above the tip and about the
\* heartbeat in InSync.
PresyncRest(s) ==
    /\ \A blk \in SyncBlocks, src \in Sources, env \in BlockEnvs :
           Height(blk) > Height(s.tip) + 1
               => on_block_event(s, blk, 1, src, env).s.curr.state = "InSync"
    /\ LET after == on_heartbeat_event(s)
       IN /\ after.curr.state = "InSync"
          /\ after.tip = s.tip
          /\ \/ after.curr = s.curr
             \/ /\ s.curr.presync # NoPresync
                /\ s.curr.presync.expiry <= 0
                /\ after.curr = [s.curr EXCEPT !.presync = NoPresync]

\* C6 as stated: a block event takes the FSM from InSync to OutOfSync only
\* when the block, of height presync.start_height + 1, is accepted and comes
\* from the presync peer while the presync record has not expired; the target
\* is the recorded block; a block more than one above the tip does not cause
\* the transition; a heartbeat in InSync only drops an expired record.
C6_AsStated ==
    curr.state = "InSync"
        => /\ \A blk \in SyncBlocks, src \in Sources, env \in BlockEnvs :
                  LET after == on_block_event(St, blk, 1, src, env).s
                  IN after.curr.state = "OutOfSync"
                         => PresyncGate(St, blk, src, after, TRUE)
           /\ PresyncRest(St)

\* C6 amended: the same with a presync record that is still there, expired or
\* not (only a heartbeat drops an expired record).
C6_PresyncGating ==
    curr.state = "InSync"
        => /\ \A blk \in SyncBlocks, src \in Sources, env \in BlockEnvs :
                  LET after == on_block_event(St, blk, 1, src, env).s
                  IN after.curr.state = "OutOfSync"
                         => PresyncGate(St, blk, src, after, FALSE)
           /\ PresyncRest(St)

\* The block requested from the presync peer is about to take the FSM to
\* OutOfSync, with another peer known to the node.
C6_Witness ==
    /\ curr.state = "InSync"
    /\ curr.presync # NoPresync
    /\ \E blk \in SyncBlocks :
           on_block_event(St, blk, 1, curr.presync.peer_addr, EnvOk).s.curr.state
               = "OutOfSync"

\* The state before the next event: what the last event sent, accepted and
\* restarted is forgotten.
Forget(s) == [s EXCEPT !.sent = <<>>, !.accepted = <<>>, !.restarts = 0,
                       !.path = <<>>]

\* The block of the chain "a" of the given height.
MainBlock(height) == <<height, "a">>

\* The start of scenario S4, scaled: an InSync node with no presync record and
\* a running stalled-chain FSM, whose tip is a block of the chain "a" of
\* height h; the peer is MAX_BLOCKS_TO_REQUEST blocks ahead on that chain
\* (tip = 100 and a block of height 150 in the scenario) and none of the
\* blocks in between is blacklisted.
S4Case(s) ==
    /\ s.curr.state = "InSync"
    /\ s.curr.presync = NoPresync
    /\ s.tip = MainBlock(Height(s.tip))
    /\ MAX_BLOCKS_TO_REQUEST >= 2
    /\ Height(s.tip) + MAX_BLOCKS_TO_REQUEST <= MaxHeight
    /\ \A height \in (Height(s.tip) + 1)
                         ..(Height(s.tip) + MAX_BLOCKS_TO_REQUEST) :
           MainBlock(height) \notin s.blacklisted_blocks
    /\ s.stalled_sm = StalledRunning(s.tip)

\* The blocks of heights from..to of the chain "a" arrive from the peer in
\* the order of their heights.
RECURSIVE BlocksArrive(_, _, _, _)
BlocksArrive(s, from, to, peer) ==
    IF from > to THEN s
    ELSE BlocksArrive(
             on_block_event(Forget(s), MainBlock(from), 1, peer, EnvOk).s,
             from + 1, to, peer)

\* Scenario S4 from the state s with the peer, entering OutOfSync with the
\* given range.  The target waits in the pool, so the block before it is the
\* one that ends the sync; the FSM is in OutOfSync until that block arrives.
S4Run(s, peer, range) ==
    LET h == Height(s.tip)
        target == MainBlock(h + MAX_BLOCKS_TO_REQUEST)
        seen == on_block_event(s, target, 1, peer, EnvOk).s
        entered ==
            on_block_event(Forget(seen), MainBlock(h + 1), 1, peer, EnvOk).s
        almost == BlocksArrive(entered, h + 2, Height(target) - 2, peer)
        done == BlocksArrive(entered, h + 2, Height(target), peer)
    IN /\ seen.sent = <<[type |-> "GetResource", height |-> h + 1,
                         to |-> peer]>>
       /\ seen.curr.state = "InSync"
       /\ entered.curr.state = "OutOfSync"
       /\ entered.curr.range = range
       /\ entered.sent = <<[type |-> "GetBlocks", locator |-> MainBlock(h + 1),
                            to |-> peer]>>
       /\ Height(target) \in DOMAIN entered.curr.pool
       /\ almost.curr.state = "OutOfSync"
       /\ Height(almost.tip) < Height(target)
       /\ done.tip = target
       /\ done.curr.state = "InSync"

C8_OnEntering ==
    /\ curr.state = "InSync"
           => \A blk \in SyncBlocks, src \in Sources, env \in BlockEnvs :
                  LET after == BlockEventInSync(St, blk, src, env).s
                      target == curr.presync.target_blk
                  IN after.curr.state = "OutOfSync"
                         => /\ after.curr.range
                                   = <<Height(after.tip),
                                       Min(Height(after.tip)
                                               + MAX_BLOCKS_TO_REQUEST,
                                           Height(target))>>
                            /\ after.curr.pool
                                   = MapInsert(EmptyMap, Height(target), target)
                            /\ after.curr.peer_addr = src
                            /\ after.sent
                                   = <<[type |-> "GetBlocks",
                                        locator |-> after.tip, to |-> src]>>
    /\ curr.state = "OutOfSync"
           => /\ curr.range[1] < curr.range[2]
              /\ curr.range[2] <= curr.range[1] + MAX_BLOCKS_TO_REQUEST

\* The FSM is about to enter OutOfSync for a target further away than
\* MAX_BLOCKS_TO_REQUEST blocks.
C8_Witness ==
    /\ curr.state = "InSync"
    /\ curr.presync # NoPresync
    /\ Height(curr.presync.target_blk)
           > curr.presync.start_height + 1 + MAX_BLOCKS_TO_REQUEST
    /\ \E blk \in SyncBlocks :
           BlockEventInSync(St, blk, curr.presync.peer_addr, EnvOk).s.curr.state
               = "OutOfSync"

\* The last of the heights h, h + 1, ... up to range.1 such that the pool of
\* s has a block of every height after h up to it.
DrainTop(s, h) ==
    LET last == Max(h, s.curr.range[2])
    IN CHOOSE k \in h..last :
           /\ \A j \in (h + 1)..k : j \in DOMAIN s.curr.pool
           /\ k = last \/ (k + 1) \notin DOMAIN s.curr.pool

\* blk, then the pooled blocks of the heights after it up to DrainTop.
DrainBlocks(s, blk) ==
    [i \in 1..(DrainTop(s, Height(blk)) - Height(blk) + 1) |->
        IF i = 1 THEN blk ELSE s.curr.pool[Height(blk) + i - 1]]

\* try_accept_block succeeds for each of these blocks in turn, from the tip.
ChainFrom(t, blocks) ==
    \A i \in DOMAIN blocks :
        /\ Valid(blocks[i])
        /\ PrevBlockHash(blocks[i]) = IF i = 1 THEN t ELSE blocks[i - 1]

\* The block event of blk, of height tip.height + 1, in OutOfSync: blk and
\* the pooled blocks after it are accepted in the order of their heights, up
\* to the first height that is missing or to range.1, and the FSM is InSync
\* afterwards exactly when the tip is at range.1.
DrainedRight(s, blk, src, env) ==
    LET r == BlockEventOutOfSync(s, blk, src, env)
        blocks == DrainBlocks(s, blk)
    IN /\ ~r.err
       /\ [i \in DOMAIN r.s.accepted |-> r.s.accepted[i].hash] = blocks
       /\ r.s.tip = blocks[Len(blocks)]
       /\ r.s.curr.state \in {"InSync", "OutOfSync"}
       /\ r.s.curr.state = "InSync" <=> Height(r.s.tip) = s.curr.range[2]

\* C9 as stated: in OutOfSync, a block of height tip.height + 1 that
\* try_accept_block takes, as it takes the pooled blocks after it, is
\* accepted and the pool drained after it, and the FSM goes back to InSync
\* exactly when the tip is at range.1.
C9_AsStated ==
    \A blk \in SyncBlocks, src \in Sources, env \in BlockEnvs :
        /\ curr.state = "OutOfSync"
        /\ Height(blk) = Height(tip) + 1
        /\ ChainFrom(tip, DrainBlocks(St, blk))
        => DrainedRight(St, blk, src, env)

\* C9 amended: the same while the expiry timer of the sync has not run out.
C9_Drain ==
    \A blk \in SyncBlocks, src \in Sources, env \in BlockEnvs :
        /\ curr.state = "OutOfSync"
        /\ ~Expired(curr.start_time)
        /\ Height(blk) = Height(tip) + 1
        /\ ChainFrom(tip, DrainBlocks(St, blk))
        => DrainedRight(St, blk, src, env)

\* A block is about to be accepted in OutOfSync with a pooled block after
\* it, which brings the tip to range.1.
C9_Witness ==
    /\ curr.state = "OutOfSync"
    /\ ~Expired(curr.start_time)
    /\ \E blk \in SyncBlocks :
           /\ Height(blk) = Height(tip) + 1
           /\ ChainFrom(tip, DrainBlocks(St, blk))
           /\ Len(DrainBlocks(St, blk)) >= 2
           /\ BlockEventOutOfSync(St, blk, NoPeer, EnvOk).s.curr.state = "InSync"

\* The block event of a stale block in OutOfSync changes nothing.
StaleIgnored(s, blk, src, env) ==
    LET r == BlockEventOutOfSync(s, blk, src, env)
    IN /\ ~r.err
       /\ r.s.tip = s.tip
       /\ r.s.curr = s.curr
       /\ r.s.restarts = 0
       /\ r.s.accepted = <<>>

\* C10 as stated: in OutOfSync a block of a height up to that of the tip is
\* ignored: tip, pool, range, timer, attempts and FSM state stay and
\* consensus is not restarted.
C10_AsStated ==
    \A blk \in SyncBlocks, src \in Sources, env \in BlockEnvs :
        curr.state = "OutOfSync" /\ Height(blk) <= Height(tip)
            => StaleIgnored(St, blk, src, env)

\* C10 amended: the same while the expiry timer of the sync has not run out.
C10_Stale ==
    \A blk \in SyncBlocks, src \in Sources, env \in BlockEnvs :
        /\ curr.state = "OutOfSync"
        /\ ~Expired(curr.start_time)
        /\ Height(blk) <= Height(tip)
        => StaleIgnored(St, blk, src, env)

\* A stale block of a fork is about to arrive in OutOfSync.
C10_Witness ==
    /\ curr.state = "OutOfSync"
    /\ ~Expired(curr.start_time)
    /\ \E blk \in SyncBlocks :
           /\ Height(blk) <= Height(tip)
           /\ blk # tip
           /\ OutOfSyncOnBlockEvent(St, blk, "p1", EnvOk).s.path = <<"stale">>

\* C4: no event accepts a block whose hash is in blacklisted_blocks, be it
\* the block of the event, a block of the OutOfSync pool or the recovery block
\* of the stalled chain, and the block event of a blacklisted block returns
\* None and leaves tip, FSM state, pool, attestation cache and stalled-chain
\* FSM as they are.  The quorum message is one for a stored candidate.
C4_Blacklist ==
    /\ \A blk \in BlacklistBlocks, src \in Sources, env \in BlockEnvs :
           LET e == on_block_event(St, blk, 1, src, env)
           IN /\ \A i \in DOMAIN e.s.accepted :
                     e.s.accepted[i].hash \notin blacklisted_blocks
              /\ blk \in blacklisted_blocks
                     => /\ e.res = "None"
                        /\ e.s.tip = tip
                        /\ e.s.curr = curr
                        /\ e.s.attestations_cache = attestations_cache
                        /\ e.s.stalled_sm = stalled_sm
    /\ \A hash \in BlacklistBlocks, round \in 0..MaxHeight,
          src \in Sources, env \in Envs :
           LET q == on_quorum_msg([St EXCEPT !.candidates = {hash}], TRUE,
                                  hash, 1, round, src, env)
           IN \A i \in DOMAIN q.s.accepted :
                  q.s.accepted[i].hash \notin blacklisted_blocks

PoolInserted(before, after) ==
    {h \in DOMAIN after.curr.pool :
        h \notin DOMAIN before.curr.pool
            \/ after.curr.pool[h] # before.curr.pool[h]}

\* The pool holds at most MAX_BLOCKS_TO_REQUEST blocks, each under its height.
PoolBounded(s) ==
    /\ Cardinality(DOMAIN s.curr.pool) <= MAX_BLOCKS_TO_REQUEST
    /\ \A h \in DOMAIN s.curr.pool : Height(s.curr.pool[h]) = h

\* The handler of the state of s, with the transition that follows it.
BlockEventHandler(s, blk, src, env) ==
    IF s.curr.state = "InSync" THEN BlockEventInSync(s, blk, src, env)
    ELSE BlockEventOutOfSync(s, blk, src, env)

\* C11 as stated: the pool holds at most MAX_BLOCKS_TO_REQUEST blocks, each
\* under its own height, and a block gets into the pool only with a height
\* above tip.height + 1, for the tip at the time it is inserted.
C11_AsStated ==
    /\ PoolBounded(St)
    /\ \A blk \in SyncBlocks, src \in Sources, env \in BlockEnvs :
           LET after == BlockEventHandler(St, blk, src, env).s
           IN \A h \in PoolInserted(St, after) : h > Height(after.tip) + 1

\* C11 amended: the pool holds at most MAX_BLOCKS_TO_REQUEST blocks, each
\* under its own height; on_block_event in OutOfSync inserts a block only
\* with a height above tip.height + 1, and on_entering inserts the target,
\* whose height is at least tip.height + 1 for the tip at entry.
C11_PoolBounded ==
    /\ PoolBounded(St)
    /\ \A blk \in SyncBlocks, src \in Sources, env \in BlockEnvs :
           LET after == BlockEventHandler(St, blk, src, env).s
           IN \A h \in PoolInserted(St, after) :
                  /\ after.curr.pool[h] \in {blk, curr.presync.target_blk}
                  /\ PoolBounded(after)
                  /\ IF curr.state = "OutOfSync"
                     THEN /\ h = Height(blk)
                          /\ h > Height(after.tip) + 1
                          /\ after.tip = tip
                     ELSE /\ after.curr.pool[h] = curr.presync.target_blk
                          /\ h >= Height(after.tip) + 1
    /\ LET beat == on_heartbeat_event(St)
       IN PoolInserted(St, beat) = {}

\* The pool is full and a block above tip.height + 1 that is not in it
\* arrives and is left out.
C11_Witness ==
    /\ curr.state = "OutOfSync"
    /\ Cardinality(DOMAIN curr.pool) = MAX_BLOCKS_TO_REQUEST
    /\ \E blk \in SyncBlocks :
           /\ Height(blk) \notin DOMAIN curr.pool
           /\ OutOfSyncOnBlockEvent(St, blk, NoPeer, EnvOk).s.path
                  = <<"pool_full">>

\* The sync of before goes on in after with its timer at another value.
TimerReset(before, after) ==
    /\ before.curr.state = "OutOfSync"
    /\ after.curr.state = "OutOfSync"
    /\ after.curr.start_time # before.curr.start_time

\* The block event of blk from src resets the timer only when blk has the
\* height tip + 1, comes from the syncing peer and is accepted; and when it
\* is all that and the sync goes on, the timer starts again.
BlockResetsTimer(s, blk, src) ==
    LET e == on_block_event(s, blk, 1, src, EnvOk).s
        fromPeer ==
            /\ Height(blk) = Height(s.tip) + 1
            /\ src = s.curr.peer_addr
            /\ e.accepted # <<>>
            /\ e.accepted[1].hash = blk
    IN /\ TimerReset(s, e) => fromPeer
       /\ s.curr.state = "OutOfSync" /\ e.curr.state = "OutOfSync" /\ fromPeer
              => e.curr.start_time = 0

GivesUp(before, after) ==
    /\ before.curr.state = "OutOfSync"
    /\ after.curr.state = "InSync"
    /\ after.restarts > 0
    /\ Height(after.tip) < before.curr.range[2]

\* A heartbeat in OutOfSync: before the expiry it changes nothing; at an
\* expiry with attempts left it uses one up, restarts the timer and asks for
\* blocks; it gives the sync up only at an expiry with no attempt left.
HeartbeatAttempts(s) ==
    LET beat == on_heartbeat_event(s)
    IN s.curr.state = "OutOfSync"
           => /\ GivesUp(s, beat)
                     <=> Expired(s.curr.start_time) /\ s.curr.attempts = 0
              /\ Expired(s.curr.start_time) /\ s.curr.attempts > 0
                     => /\ beat.curr
                               = [s.curr EXCEPT !.attempts = @ - 1,
                                                !.start_time = 0]
                        /\ beat.restarts = 0
                        /\ \A i \in DOMAIN beat.sent :
                               beat.sent[i].type = "FloodRequest"
                        /\ MissingHeights(s.curr.range, s.curr.pool) # {}
                               => Len(beat.sent) = 1
              /\ ~Expired(s.curr.start_time)
                     => /\ beat.curr = s.curr
                        /\ beat.tip = s.tip
                        /\ beat.sent = <<>>
                        /\ beat.restarts = 0

\* A sync starts with INITIAL_ATTEMPTS attempts.
StartsWithAttempts(s, blk, src) ==
    LET after == BlockEventHandler(s, blk, src, EnvOk).s
    IN s.curr.state = "InSync" /\ after.curr.state = "OutOfSync"
           => after.curr.attempts = INITIAL_ATTEMPTS

\* OutOfSyncImpl::on_block_event gives the sync up: it restarts the consensus
\* and asks for the transition to InSync with the tip below the end of the
\* range.
BlockGivesUp(s, blk, src) ==
    LET r == OutOfSyncOnBlockEvent(s, blk, src, EnvOk)
    IN /\ s.curr.state = "OutOfSync"
       /\ ~r.err
       /\ r.ret
       /\ r.s.restarts > 0
       /\ Height(r.s.tip) < s.curr.range[2]

\* C13 as stated: a sync, which starts with 3 attempts, is given up only
\* once the attempts are used up; every expiry before that uses one attempt
\* up and asks for the missing blocks, and a heartbeat before the expiry
\* changes nothing.
C13_AsStated ==
    /\ HeartbeatAttempts(St)
    /\ \A blk \in TimerBlocks, src \in Sources :
           /\ StartsWithAttempts(St, blk, src)
           /\ BlockGivesUp(St, blk, src) => curr.attempts = 0

\* C13 amended: a heartbeat gives the sync up only once the attempts are
\* used up; a block event that finds the timer expired gives it up whatever
\* attempts are left, and no block event gives it up before the expiry.
C13_Attempts ==
    /\ HeartbeatAttempts(St)
    /\ \A blk \in TimerBlocks, src \in Sources :
           /\ StartsWithAttempts(St, blk, src)
           /\ BlockGivesUp(St, blk, src)
                  <=> /\ curr.state = "OutOfSync"
                      /\ Expired(curr.start_time)
                      /\ Height(tip) < curr.range[2]

\* The timer of a sync has run out for the last time: no attempt is left and
\* the heartbeat gives the sync up.
C13_Witness ==
    /\ curr.state = "OutOfSync"
    /\ Expired(curr.start_time)
    /\ curr.attempts = 0
    /\ GivesUp(St, on_heartbeat_event(St))

\* The heights of the range, range.0 < h <= range.1, that the pool lacks.
MissingInRange(range, pool) ==
    {h \in (range[1] + 1)..range[2] : h \notin DOMAIN pool}

\* C14: a heartbeat in OutOfSync that finds the timer expired with attempts
\* left asks for exactly the heights of the range that the pool lacks, for no
\* height outside the range, and sends nothing when none is lacking.
C14_Missing ==
    curr.state = "OutOfSync" /\ Expired(curr.start_time) /\ curr.attempts > 0
        => LET beat == on_heartbeat_event(St)
               missing == MissingInRange(curr.range, curr.pool)
           IN beat.sent
                  = IF missing = {} THEN <<>>
                    ELSE <<[type |-> "FloodRequest", heights |-> missing]>>

\* The node cannot build the block of the quorum yet: the round is above
\* tip + 1, or the round is tip + 1, or the height of the tip with another
\* hash, and the candidate is not in the database.
CannotBuildYet(s, hash, round) ==
    \/ round > Height(s.tip) + 1
    \/ /\ round = Height(s.tip) + 1 \/ (round = Height(s.tip) /\ s.tip # hash)
       /\ hash \notin s.candidates

\* C15: a quorum with Success(Valid(h)) for a block the node cannot build yet
\* caches the attestation under h and flood-requests the candidate h; the tip
\* stays.
C15_QuorumCaching ==
    \A hash \in QuorumBlocks, att \in Atts, round \in QuorumRounds :
        CannotBuildYet(St, hash, round)
            => LET q == on_quorum_msg(St, TRUE, hash, att, round, NoPeer,
                                      EnvOk).s
               IN /\ hash \in DOMAIN q.attestations_cache
                  /\ q.attestations_cache[hash].att = att
                  /\ q.sent = <<[type |-> "FloodCandidate", hash |-> hash]>>
                  /\ q.tip = tip

\* The start of scenario S5: the block H follows the tip, would be accepted,
\* and is neither a stored candidate nor blacklisted nor in the cache.
S5Case(s, H) ==
    /\ s.curr.state = "InSync"
    /\ Height(H) = Height(s.tip) + 1
    /\ CanAccept(s, H)
    /\ H \notin s.candidates
    /\ H \notin s.blacklisted_blocks
    /\ H \notin DOMAIN s.attestations_cache

\* C16: scenario S5.  After the quorum for H at tip + 1, with H not a stored
\* candidate, the block event of H without attestation, before the cache
\* entry expires, attaches the cached attestation, accepts H as the new tip
\* and leaves no entry for H in the cache.
C16_ScenarioS5 ==
    \A H \in QuorumBlocks, att \in Atts :
        S5Case(St, H)
            => LET q == on_quorum_msg(St, TRUE, H, att, Height(H), NoPeer,
                                      EnvOk).s
                   later == Later(Forget(q), QuorumTick, FALSE)
                   e == on_block_event(later, H, DefaultAtt, NoPeer, EnvOk).s
               IN /\ attach_att_if_needed(later, H, DefaultAtt).att = att
                  /\ e.tip = H
                  /\ H \notin DOMAIN e.attestations_cache

\* C17: the same hash and attestation cached twice make one entry for the
\* hash, whose expiry is DEFAULT_ATT_CACHE_EXPIRY after the second insertion.
C17_Idempotence ==
    \A hash \in QuorumBlocks, att \in Atts :
        LET first == flood_request_block(St, hash, att)
            later == Later(first, QuorumTick, FALSE)
            second == flood_request_block(later, hash, att)
        IN /\ hash \in DOMAIN second.attestations_cache
           /\ second.attestations_cache[hash]
                  = [att |-> att, expiry |-> DEFAULT_ATT_CACHE_EXPIRY]

\* C18: on_quorum_msg and attach_att_if_needed leave no expired entry in the
\* cache, and the attestation of an expired entry is not attached to a block.
C18_Expired ==
    /\ \A hash \in QuorumBlocks, att \in Atts, round \in QuorumRounds :
           LET q == on_quorum_msg(St, TRUE, hash, att, round, NoPeer, EnvOk).s
           IN \A h \in DOMAIN q.attestations_cache :
                  Fresh(q.attestations_cache[h].expiry)
    /\ \A blk \in QuorumBlocks, att \in Atts \cup {DefaultAtt} :
           LET a == attach_att_if_needed(St, blk, att)
           IN /\ \A h \in DOMAIN a.s.attestations_cache :
                     Fresh(a.s.attestations_cache[h].expiry)
              /\ (/\ att = DefaultAtt
                  /\ blk \in DOMAIN attestations_cache
                  /\ ~Fresh(attestations_cache[blk].expiry))
                     => a.att = DefaultAtt

\* C19: a block event with the default attestation for a hash that has no
\* cache entry returns None and leaves tip, FSM state, pool and stalled-chain
\* FSM as they are; the handlers of InSync and OutOfSync get no block without
\* attestation: the cache holds none to attach.
C19_NoAttestation ==
    /\ \A h \in DOMAIN attestations_cache :
           attestations_cache[h].att # DefaultAtt
    /\ \A blk \in QuorumBlocks :
           LET e == on_block_event(St, blk, DefaultAtt, NoPeer, EnvOk)
               a == attach_att_if_needed(St, blk, DefaultAtt)
           IN /\ blk \notin DOMAIN attestations_cache
                     => /\ e.res = "None"
                        /\ e.s.tip = tip
                        /\ e.s.final = final
                        /\ e.s.curr = curr
                        /\ e.s.stalled_sm = stalled_sm
                        /\ e.s.blacklisted_blocks = blacklisted_blocks
                        /\ e.s.accepted = <<>>
                        /\ e.s.sent = <<>>
                        /\ e.s.restarts = 0
              /\ a.att = DefaultAtt /\ blk \notin blacklisted_blocks
                     => e.s.path = <<"no_attestation">>

\* A block that would be accepted with an attestation arrives without one
\* while the cache holds an entry for another block only.
C19_Witness ==
    /\ attestations_cache # EmptyMap
    /\ \E blk \in QuorumBlocks :
           /\ blk \notin DOMAIN attestations_cache
           /\ on_block_event(St, blk, 1, NoPeer, EnvOk).s.tip = blk
           /\ on_block_event(St, blk, DefaultAtt, NoPeer, EnvOk).s.path
                  = <<"no_attestation">>

\* The recovery from StalledOnFork ran in the event and ended this way.
RecoveryEnded(e, tag) == e.s.path # <<>> /\ e.s.path[Len(e.s.path)] = tag

\* C20: when the stalled-chain FSM reports StalledOnFork(local_hash,
\* remote_blk), the revert that succeeds is followed by the acceptance of
\* remote_blk, which is the tip afterwards, local_hash is blacklisted and the
\* stalled-chain FSM is Running again; the revert that fails leaves the tip,
\* the blacklist and the StalledOnFork state, and the event returns no error.
C20_StalledOnFork ==
    \A blk \in SyncBlocks, src \in Sources, env \in BlockEnvs :
        LET e == on_block_event(St, blk, 1, src, env)
            reported == StalledOnBlockReceived(stalled_sm, tip, blk)
        IN /\ reported.state = "StalledOnFork"
           /\ \E tag \in {"recovered", "recovery_not_accepted",
                          "revert_failed"} : RecoveryEnded(e, tag)
           => IF RecoveryEnded(e, "revert_failed")
              THEN /\ e.res = "None"
                   /\ e.s.tip = tip
                   /\ e.s.blacklisted_blocks = blacklisted_blocks
                   /\ e.s.stalled_sm = reported
              ELSE /\ e.res = "Some"
                   /\ e.s.tip = reported.remote_blk
                   /\ reported.local_hash \in e.s.blacklisted_blocks
                   /\ e.s.stalled_sm.state = "Running"

\* The hashes of the blocks the event accepted into the chain.
AcceptedBy(e) == {e.s.accepted[i].hash : i \in DOMAIN e.s.accepted}

\* C21: on_block_event, and on_quorum_msg which delegates to it, return
\* Some(block) if and only if that block was accepted into the chain by the
\* call; a block that was discarded, ignored as stale or duplicate, only
\* pooled or only recorded for presync makes them return None.
C21_ReturnValue ==
    /\ \A blk \in QuorumBlocks, att \in Atts \cup {DefaultAtt} :
           LET e == on_block_event(St, blk, att, NoPeer, EnvOk)
           IN e.res = "Some" <=> blk \in AcceptedBy(e)
    /\ \A hash \in QuorumBlocks, att \in Atts, round \in QuorumRounds,
          success \in BOOLEAN :
           LET q == on_quorum_msg(St, success, hash, att, round, NoPeer,
                                  EnvOk)
           IN q.res = "Some" <=> hash \in AcceptedBy(q)

\* C22: an error of the InSync or OutOfSync handling of a block event does
\* not keep the block from the stalled-chain FSM: for a block that is not
\* blacklisted and has an attestation, on_block_received and what follows it
\* run on the state the failed handler left, and the error is returned after
\* that (unless the recovery from a fork returned first).
C22_StalledUnaffected ==
    \A blk \in BlacklistBlocks, src \in Sources, env \in BlockEnvs :
        LET a == attach_att_if_needed(St, blk, 1)
            f == BlockEventHandler(a.s, blk, src, env)
            stalled == StalledStep(f.s, blk, env)
            e == on_block_event(St, blk, 1, src, env)
        IN blk \notin blacklisted_blocks /\ f.err
               => /\ e.s = stalled.s
                  /\ e.res = IF stalled.res = "Some" THEN "Err"
                             ELSE stalled.res

\* The tasks inside the call op of the Acceptor.
InFlight(op) == {t \in Tasks : tasks[t].inflight = op}

\* C23: every try_accept_block, try_revert and restart_consensus of the
\* chain FSM runs while the FSM holds the write lock of the Acceptor; at most
\* one try_accept_block is in flight at any time, and no try_revert runs
\* while a try_accept_block is in flight.
C23_Serialized ==
    /\ tasks["fsm"].inflight # "none"
           => acc_lock.writer = "fsm" /\ acc_lock.readers = {}
    /\ Cardinality(InFlight("try_accept_block")) <= 1
    /\ InFlight("try_accept_block") = {} \/ InFlight("try_revert") = {}

\* The chain FSM is inside try_accept_block while the other holder of the
\* Acceptor waits for the write lock to revert or to accept.
C23_Witness ==
    /\ tasks["fsm"].inflight = "try_accept_block"
    /\ AtStep("srv", "write")
    /\ tasks["srv"].prog[2] \in {"try_revert", "try_accept_block"}

\* The step from one state of the task to the next is not the start of
\* another round.
SameRound == task.status # "none" /\ task'.pc # "evict"

\* What the order of the steps allows from one state of the task to the
\* next: a step starts from reinitialize alone, in the phase and iteration
\* the loop is at, with the message the loop holds; the phase moves on by one
\* when its step has returned and goes back to the first phase when an
\* iteration begins; the iteration goes up by one after the last phase, and
\* is 0 when the loop begins; the message of the loop is the output of the
\* step that ran last, or empty when an iteration begins.
OrderStep ==
    /\ SameRound /\ task'.pc = "run" /\ task.pc # "run"
           => /\ task.pc = "reinit"
              /\ task'.step_msg = task.msg
              /\ task'.iter = task.iter /\ task'.phase = task.phase
              /\ task.phase = 1 => task.msg = MessageEmpty
    /\ SameRound /\ task'.phase # task.phase
           => \/ /\ task.pc \in {"run", "send"}
                 /\ task'.phase = task.phase + 1
                 /\ task'.iter = task.iter
              \/ /\ task.pc \in {"evict", "delay"}
                 /\ task'.phase = 1
    /\ SameRound /\ task'.iter # task.iter
           => \/ /\ task.pc = "close" /\ task.phase = Len(Phases)
                 /\ task'.iter = task.iter + 1
              \/ task.pc = "evict"
    /\ SameRound /\ task.pc = "evict" /\ task'.pc # "evict"
           => task'.iter = 0 /\ task'.phase = 1
    /\ SameRound /\ task'.msg # task.msg
           => \/ task.pc = "run"
              \/ task.pc \in {"evict", "delay"} /\ task'.msg = MessageEmpty

\* C24: within a round the steps run in the order Proposal, Validation,
\* Ratification in each iteration and the iterations in increasing order
\* from 0; a step starts after the step before it has returned, with the
\* message that step returned, and the Proposal step of every iteration
\* starts from the empty message.
C24_StepOrder == [][OrderStep]_vars

\* C26: a round runs at most CONSENSUS_MAX_ITER iterations, the step number
\* iter * 3 + phase stays below CONSENSUS_MAX_STEP and the counter of 8 bits
\* does not overflow; after the last of the iterations the loop stops with
\* NotReady.
C26_MaxIterations ==
    /\ [](task.status # "none"
              => /\ task.iter < CONSENSUS_MAX_ITER
                 /\ task.iter * Len(Phases) + (task.phase - 1)
                        < CONSENSUS_MAX_STEP
                 /\ task.result # "Panic")
    /\ [][task.pc = "close" /\ task.iter = CONSENSUS_MAX_ITER - 1
              /\ task'.pc # "close"
              => task'.status = "finished" /\ task'.result = "NotReady"]_vars

IsQuorum(m) == m.topic = "Quorum"

C27_QuorumForwarding ==
    /\ task.status # "none"
    /\ task.pc = "close" \/ (task.pc = "reinit" /\ task.phase > 1)
    => SelectSeq(outbound, IsQuorum)
           = IF IsQuorum(task.msg) THEN <<task.msg>> ELSE <<>>

\* The Proposal step returned the failed quorum of the iteration before
\* after it cast its vote; the quorum is on the queue behind the vote, and
\* the Validation step is next.
C27_Witness ==
    /\ task.status = "running"
    /\ task.pc = "reinit" /\ task.phase = 2
    /\ IsQuorum(task.msg) /\ ~task.msg.success
    /\ task.msg.iter < task.iter
    /\ outbound = <<Vote("Proposal", task.iter), task.msg>>

\* spin has returned to its caller.
SpinReturned == spin.pc = "returned"

\* What C28 says of the task and of the outbound queue: when spin has
\* returned the task is over, and while spin stays returned nothing is put on
\* the outbound queue.
TaskOverOnReturn ==
    /\ [](SpinReturned => IsFinished(task))
    /\ [][SpinReturned /\ SpinReturned' => outbound' = outbound]_vars

\* C28 as stated: when the cancel signal fires while the task of the round
\* runs, spin returns Err(Canceled(round)); and when spin has returned, for
\* whatever reason, the task has been aborted and joined, so that nothing is
\* put on the outbound queue after the return.
C28_AsStated ==
    /\ [](SpinReturned /\ spin.signalled = "running"
              => spin.result = "Canceled")
    /\ TaskOverOnReturn

\* C28 amended: when the cancel signal fires while the task of the round
\* runs, spin returns Err(Canceled(round)), or the error with which the task
\* has ended by itself before spin took the signal; and when spin has
\* returned, for whatever reason, the task is over (ended by itself, or
\* aborted and joined), so that nothing is put on the outbound queue after
\* the return.
C28_Cancellation ==
    /\ [](SpinReturned /\ spin.signalled = "running"
              => \/ spin.result = "Canceled"
                 \/ /\ task.status = "finished"
                    /\ task.result = "Err"
                    /\ spin.result = task.result)
    /\ TaskOverOnReturn

\* spin has returned Err(Canceled(round)) after a signal sent while the task
\* ran; the task was aborted after a step that had put its vote on the
\* outbound queue, before it forwarded the quorum, and joined.
C28_Witness ==
    /\ SpinReturned
    /\ spin.signalled = "running"
    /\ spin.result = "Canceled"
    /\ task.status = "aborted"
    /\ task.pc = "send"
    /\ outbound # <<>>

\* The step of the task from its start to the loop, in which the registry of
\* future messages is cleaned.
RoundStarts == Live /\ task.pc = "evict" /\ task'.pc = "delay"

\* A step of a running phase on the registry: it stashes messages for the
\* round or a later one, or takes the messages stashed for the round.
RegistryInUse ==
    /\ Live /\ task.pc = "run" /\ task' = task
    /\ \/ /\ future_msgs' \ future_msgs # {}
          /\ \A r \in future_msgs' \ future_msgs : r >= spin.round
          /\ future_msgs \subseteq future_msgs'
       \/ future_msgs' = future_msgs \ {spin.round}

\* C29: at the start of round R the registry of future messages loses the
\* messages of round R - 1 and no others (none when R = 0), so that those of
\* the rounds from R on are still there; and from one round to the next
\* nothing but the steps of a running phase changes the registry: what was
\* stashed for round R or a later one is there when round R starts.
C29_Eviction ==
    [][IF RoundStarts
       THEN /\ spin.round > 0 => future_msgs' = future_msgs \ {spin.round - 1}
            /\ spin.round = 0 => future_msgs' = future_msgs
            /\ \A r \in future_msgs : r >= spin.round => r \in future_msgs'
       ELSE future_msgs' # future_msgs => RegistryInUse]_vars

\* Round R > 0 is about to start with messages of round R - 1 and of round R
\* in the registry, left there by the round before.
C29_Witness ==
    /\ Live /\ task.pc = "evict"
    /\ spin.round > 0
    /\ {spin.round - 1, spin.round} \subseteq future_msgs

\* The deadline the iteration context holds for a step kind, and the number
\* of timeouts of the kind since the round began.
Deadline(step) == task.iter_ctx.timeouts[step]
TimeoutsHit(step) == task.iter_ctx.hits[step]

\* A step of the model in which the running phase passes its deadline.
StepTimesOut ==
    /\ Live /\ task.pc = "run"
    /\ \E step \in StepNames :
           /\ step = Phases[task.phase]
           /\ task'.iter_ctx.hits
                  = [task.iter_ctx.hits EXCEPT ![step] = @ + 1]
           /\ task'.iter_ctx.timeouts
                  = [task.iter_ctx.timeouts EXCEPT
                         ![step] = IF 2 * @ <= CONSENSUS_MAX_TIMEOUT_MS
                                   THEN 2 * @
                                   ELSE CONSENSUS_MAX_TIMEOUT_MS]

RECURSIVE FirstError(_)
FirstError(checks) ==
    IF checks = <<>> THEN "Ok"
    ELSE IF Head(checks)[1] THEN Head(checks)[2]
    ELSE FirstError(Tail(checks))

\* The checks of a message up to the previous block hash, with their errors,
\* against the generator gen of its iteration.
ChecksOfHeader(msg, gen) ==
    <<<<msg.payload # "Candidate", "InvalidMsgType">>,
      <<msg.signer # gen, "NotCommitteeMember">>,
      <<~msg.candidate.size.ok, "UnknownBlockSize">>,
      <<msg.candidate.size.bytes > MAX_BLOCK_SIZE, "InvalidBlockSize">>,
      <<~msg.signature_ok, "InvalidSignature">>,
      <<msg.prev_block_hash # msg.candidate.prev_block_hash,
        "InvalidBlockHash">>>>

TooManyTxs(msg) ==
    <<Len(msg.candidate.txs) > MAX_NUMBER_OF_TRANSACTIONS,
      "TooManyTransactions">>
TooManyFaults(msg) ==
    <<Len(msg.candidate.faults) > MAX_NUMBER_OF_FAULTS, "TooManyFaults">>
WrongTxRoot(msg) ==
    <<msg.candidate.txroot # <<"root", msg.candidate.txs>>, "InvalidBlock">>
WrongFaultRoot(msg) ==
    <<msg.candidate.faultroot # <<"root", msg.candidate.faults>>,
      "InvalidBlock">>

\* The generator the committees of the handler hold for the message at hand.
ExpectedGenerator == proposal.round_committees[proposal.msg.iteration]

\* C31 as stated: verify accepts the message at hand if and only if none of
\* the checks fails, and otherwise returns the error of the first check that
\* fails in the order InvalidMsgType, NotCommitteeMember, UnknownBlockSize or
\* InvalidBlockSize, InvalidSignature, InvalidBlockHash,
\* TooManyTransactions, TooManyFaults, InvalidBlock.
C31_AsStated ==
    proposal.verdict # "none"
        => proposal.verdict
               = FirstError(ChecksOfHeader(proposal.msg, ExpectedGenerator)
                                \o <<TooManyTxs(proposal.msg),
                                     TooManyFaults(proposal.msg),
                                     WrongTxRoot(proposal.msg),
                                     WrongFaultRoot(proposal.msg)>>)

\* C31 amended: for a Candidate of an iteration whose committee is not made
\* verify panics; otherwise it accepts the message if and only if none of
\* the checks fails, and returns the error of the first check that fails in
\* the order InvalidMsgType, NotCommitteeMember, UnknownBlockSize or
\* InvalidBlockSize, InvalidSignature, InvalidBlockHash,
\* TooManyTransactions, InvalidBlock of the tx-root, TooManyFaults,
\* InvalidBlock of the fault-root.
C31_Verify ==
    proposal.verdict # "none"
        => IF proposal.msg.payload = "Candidate" /\ ExpectedGenerator = "none"
           THEN proposal.verdict = "Panic"
           ELSE LET checks ==
                        ChecksOfHeader(proposal.msg, ExpectedGenerator)
                            \o <<TooManyTxs(proposal.msg),
                                 WrongTxRoot(proposal.msg),
                                 TooManyFaults(proposal.msg),
                                 WrongFaultRoot(proposal.msg)>>
                IN /\ proposal.verdict = FirstError(checks)
                   /\ proposal.verdict = "Ok"
                          <=> \A i \in 1..Len(checks) : ~checks[i][1]

\* verify has returned InvalidBlock for a candidate that passes the checks
\* up to the number of transactions, whose tx-root is not the root of its
\* transactions and which has too many faults.
C31_Witness ==
    /\ proposal.verdict = "InvalidBlock"
    /\ WrongTxRoot(proposal.msg)[1]
    /\ TooManyFaults(proposal.msg)[1]

\* A step in which collect or collect_from_past returns.
Collects == proposal.outcome = NoOutcome /\ proposal'.outcome # NoOutcome

\* C32: collect and collect_from_past of a Candidate message store its
\* candidate block in the database and return Ready with the same message;
\* of a message of another payload they return InvalidMsgType and leave the
\* database as it was.
C32_Collect ==
    [][Collects
           => /\ proposal'.msg = proposal.msg
              /\ IF proposal.msg.payload = "Candidate"
                 THEN /\ proposal'.outcome
                             = [kind |-> "Ready", of |-> proposal.msg]
                      /\ proposal'.db
                             = proposal.db \cup {proposal.msg.candidate}
                 ELSE /\ proposal'.outcome
                             = [kind |-> "Err", of |-> "InvalidMsgType"]
                      /\ proposal'.db = proposal.db]_vars

\* collect_from_past has returned Ready for a Candidate whose block is now in
\* the database next to the one that was there.
C32_Witness ==
    /\ proposal.from_past
    /\ proposal.outcome = [kind |-> "Ready", of |-> proposal.msg]
    /\ proposal.msg.payload = "Candidate"
    /\ proposal.db = {NoCandidate, proposal.msg.candidate}
    /\ proposal.msg.candidate # NoCandidate

\* What InSyncImpl::on_block_event does with remote_blk in the state at hand.
InSyncAfter(remote_blk, src, env) == InSyncOnBlockEvent(St, remote_blk, src, env)

\* The chain was reverted: the tip before is no block of the chain after.
Reverted(after) == ~InChain(after.tip, tip)

\* The case of the fallback at or below the tip: a block that is not in the
\* chain, above the latest finalized block, whose parent is in the chain and
\* whose iteration is below that of the block of the chain at its height.
LowerIterationCase(remote_blk) ==
    /\ Height(remote_blk) <= Height(tip)
    /\ ~InChain(tip, remote_blk)
    /\ Height(remote_blk) > final
    /\ InChain(tip, PrevBlockHash(remote_blk))
    /\ Iteration(remote_blk)
           < Iteration(fetch_block_by_height(tip, Height(remote_blk)))

Compared(remote_blk) ==
    /\ Height(remote_blk) <= Height(tip)
    /\ ~InChain(tip, remote_blk)
    /\ Height(remote_blk) > final
    /\ InChain(tip, PrevBlockHash(remote_blk))

\* C35: in InSync a remote block at or below the height of the tip leaves the
\* tip, the blacklist, the presync record and the state of the FSM as they
\* are, accepts nothing and restarts nothing, unless it is in the case of the
\* fallback (not in the chain, above the latest finalized block, its parent
\* in the chain, its iteration below that of the block of the chain at its
\* height); with an equal iteration nothing is sent, with a higher iteration
\* the block of the chain at that height is sent to the source when there is
\* one, and nothing else is ever sent.
C35_NotAboveFrame ==
    curr.state = "InSync"
        => \A remote_blk \in Hashes, src \in Sources, env \in BlockEnvs :
               LET r == InSyncAfter(remote_blk, src, env)
                   after == r.s
                   local_blk ==
                       fetch_block_by_height(tip, Height(remote_blk))
               IN Height(remote_blk) <= Height(tip)
                      /\ ~LowerIterationCase(remote_blk)
                      => /\ after.tip = tip
                         /\ after.final = final
                         /\ after.blacklisted_blocks = blacklisted_blocks
                         /\ after.curr = curr
                         /\ after.accepted = <<>>
                         /\ after.restarts = 0
                         /\ after.sent
                                = IF /\ Compared(remote_blk)
                                     /\ Iteration(remote_blk)
                                            > Iteration(local_blk)
                                     /\ src # NoPeer
                                  THEN <<[type |-> "Block",
                                          hash |-> local_blk, to |-> src]>>
                                  ELSE <<>>

\* In InSync a remote block of the height of the tip and of a higher
\* iteration than the tip may come, and one of the iteration of the block of
\* the chain at its height too.
C35_Witness ==
    /\ curr.state = "InSync"
    /\ \E remote_blk \in Hashes :
           /\ Compared(remote_blk)
           /\ Height(remote_blk) = Height(tip)
           /\ Iteration(remote_blk) > Iteration(tip)
    /\ \E remote_blk \in Hashes :
           /\ Compared(remote_blk)
           /\ Iteration(remote_blk)
                  = Iteration(fetch_block_by_height(tip, Height(remote_blk)))

\* A step that takes a hash out of the blacklist.
BlacklistShrinks == ~(blacklisted_blocks \subseteq blacklisted_blocks')

\* A step in which InSync accepts a block of the height after the tip and
\* the acceptance moves the latest finalized block.
FinalizedInSync ==
    /\ curr.state = "InSync"
    /\ Height(tip') = Height(tip) + 1
    /\ InChain(tip', tip)
    /\ final' > final

\* C36: a step that takes a hash out of the blacklist leaves it empty, and
\* is either a block event in which InSync accepts a block of the height
\* after the tip whose acceptance moves the latest finalized block, or a
\* block event after which the stalled-chain FSM is in Stalled; a hash gets
\* into the blacklist only in a step that reverts the chain, and it is the
\* hash of a block of the chain that the step takes out of the chain.
C36_Blacklist ==
    [][/\ BlacklistShrinks
           => /\ blacklisted_blocks' = {}
              /\ FinalizedInSync \/ stalled_sm'.state = "Stalled"
       /\ \A hash \in blacklisted_blocks' \ blacklisted_blocks :
              /\ InChain(tip, hash)
              /\ ~InChain(tip', hash)]_vars

\* The blacklist holds a hash and a block event is about to clear it: in
\* InSync, the block after the tip, whose acceptance moves the latest
\* finalized block.
C36_Witness ==
    /\ blacklisted_blocks # {}
    /\ curr.state = "InSync"
    /\ \E blk \in Hashes :
           LET after ==
                   on_block_event(St, blk, 1, NoPeer,
                                  [EnvOk EXCEPT !.fin = "self"]).s
           IN /\ after.blacklisted_blocks = {}
              /\ after.tip = blk
              /\ after.final > final
              /\ after.stalled_sm.state = "Running"

\* The hashes of the blocks accepted in an event, in the order of the calls,
\* and whether the event took the branch of the tag.
AcceptedIn(r) == [i \in DOMAIN r.s.accepted |-> r.s.accepted[i].hash]
Took(r, tag) == \E i \in DOMAIN r.s.path : r.s.path[i] = tag

\* The tip at the first successful try_accept_block of a block event: the
\* block reverted to when the event reverts (the prev block of the remote
\* block in the fallback, that of the local block in the stalled-on-fork
\* recovery), else the tip the event began with.
TipAtFirstCall(blk, r) ==
    IF Took(r, "fallback") THEN PrevBlockHash(blk)
    ELSE IF Took(r, "recovered") THEN PrevBlockHash(tip)
    ELSE tip

\* The block of the try_accept_block that failed, in an event that ended with
\* the error of one; the tip at that call is the tip the event leaves.
Refused(blk, r) ==
    IF Took(r, "pooled_not_accepted")
    THEN r.s.curr.pool[Height(r.s.tip) + 1]
    ELSE IF Took(r, "recovery_not_accepted") THEN r.s.stalled_sm.remote_blk
    ELSE blk

\* C37: every block handed to try_accept_block is at height tip.height + 1
\* at the moment of the call, whether the call succeeds or fails: the blocks
\* accepted in one event are at consecutive heights from one above the tip of
\* the first call, the tip is the last of them when the event ends without
\* an error, and a block the Acceptor refused was one above the tip too. The
\* revert of the fallback leaves the tip at the prev block of the remote
\* block.
C37_SuccessorOnly ==
    \A blk \in Hashes, src \in Sources, env \in BlockEnvs :
        LET r == on_block_event(St, blk, 1, src, env)
            new == AcceptedIn(r)
        IN /\ \A i \in DOMAIN new :
                  Height(new[i])
                      = 1 + Height(IF i = 1 THEN TipAtFirstCall(blk, r)
                                   ELSE new[i - 1])
           /\ (new # <<>> /\ r.res # "Err") => r.s.tip = new[Len(new)]
           /\ (new = <<>> /\ r.res # "Err") => r.s.tip = tip
           /\ Took(r, "fallback_not_accepted")
                  => r.s.tip = PrevBlockHash(blk)
           /\ Took(r, "pooled_not_accepted")
                  => Height(r.s.tip) + 1 \in DOMAIN r.s.curr.pool
           /\ r.res = "Err"
                  => Height(Refused(blk, r)) = Height(r.s.tip) + 1

\* A block event in OutOfSync that accepts the block it brings and a pooled
\* block after it, two heights in a row.
C37_Witness ==
    /\ curr.state = "OutOfSync"
    /\ \E blk \in Hashes :
           LET r == on_block_event(St, blk, 1, NoPeer, EnvOk)
           IN /\ Len(r.s.accepted) >= 2
              /\ Height(r.s.tip) = Height(tip) + Len(r.s.accepted)

\* A presync record is there: made by a block event and not taken away since
\* by a heartbeat after its expiry or by the block it waits for.
PresyncPending == curr.state = "InSync" /\ curr.presync # NoPresync

\* What a handler leaves of the state apart from the presync record, the
\* messages sent and the branch taken.
Ledger(s) ==
    [s EXCEPT !.curr.presync = NoPresync, !.sent = <<>>, !.path = <<>>]

\* C40: in InSync, for a block more than one above the tip: with a presync
\* record pending, the handler leaves the record (peer, target, start height
\* and expiry) as it is and sends one request, of the block of height
\* tip.height + 1, to the sender of the block; without source metadata it
\* records nothing and sends nothing, pending record or not; it returns
\* Ok(None) and changes nothing else, and the whole block event leaves the
\* record as it is as well.
C40_PresyncFrame ==
    curr.state = "InSync" =>
        \A remote_blk \in Hashes, src \in Sources, env \in BlockEnvs :
            Height(remote_blk) > Height(tip) + 1 =>
                LET r == InSyncOnBlockEvent(St, remote_blk, src, env)
                    request ==
                        [type |-> "GetResource", height |-> Height(tip) + 1,
                         to |-> src]
                IN /\ ~r.err /\ r.ret = None
                   /\ Ledger(r.s) = Ledger(St)
                   /\ r.s.sent = IF src = NoPeer THEN <<>> ELSE <<request>>
                   /\ (PresyncPending \/ src = NoPeer)
                          => r.s.curr.presync = curr.presync
                   /\ PresyncPending
                          => \A att \in Atts :
                                 on_block_event(St, remote_blk, att, src, env)
                                     .s.curr.presync = curr.presync

\* A presync record of one peer is pending and another block more than one
\* above the tip, not the target of the record, comes from the other peer.
C40_Witness ==
    /\ PresyncPending
    /\ \E remote_blk \in Hashes, src \in Peers :
           /\ Height(remote_blk) > Height(tip) + 1
           /\ src # curr.presync.peer_addr
           /\ remote_blk # curr.presync.target_blk
           /\ LET r == InSyncOnBlockEvent(St, remote_blk, src, EnvOk)
              IN /\ r.s.curr.presync = curr.presync
                 /\ Len(r.s.sent) = 1 /\ r.s.sent[1].to = src

\* The sync is over: the FSM is back in InSync.
SyncOver == curr.state = "InSync"

\* What the transition of an event from OutOfSync to InSync is like: consensus
\* restarted once, and the target of the range reached or the timer expired
\* before the event.
EndsRight(after) ==
    after.curr.state = "InSync" =>
        /\ after.restarts = 1
        /\ Height(after.tip) >= curr.range[2] \/ Expired(curr.start_time)

Waits(t) ==
    /\ Busy(t)
    /\ NextStep(t)[1] \in {"read", "write"}
    /\ ~CanTake(t, NextStep(t))

\* C39: the chain FSM does not deadlock on its locks. A handler never asks
\* for a lock of which it holds a guard, the Acceptor least of all; it asks
\* for the Acceptor with no guard in hand and for any other lock with at
\* most the guard of the Acceptor in hand, so that locks held together were
\* taken Acceptor first; and whatever the other holder does, a task in a
\* handler is never left with no task able to go on.
C39_NoDeadlock ==
    /\ (Busy("fsm") /\ NextStep("fsm")[1] \in {"read", "write"}) =>
           /\ NextStep("fsm")[2] \notin HeldBy("fsm")
           /\ NextStep("fsm")[2] = "acc" => HeldBy("fsm") = {}
           /\ HeldBy("fsm") \subseteq {"acc"}
    /\ (\E t \in Tasks : Busy(t)) => \E t \in Tasks : Busy(t) /\ ~Waits(t)

\* The chain FSM holds the guards of the Acceptor and of the blacklist
\* together while the other holder, with the guard of the Acceptor wanted,
\* waits for it.
C39_Witness ==
    /\ HeldBy("fsm") = {"acc", "blacklist"}
    /\ Waits("srv") /\ NextStep("srv")[2] = "acc"

====
